---------------------------- MODULE Spec2Model ----------------------------
(***************************************************************************)
(* Balance accrual and settlement engine of gainbridgebk.                  *)
(*                                                                         *)
(* Money is counted in mills (1/1000 of a currency unit) so that the       *)
(* toFixed(2) roundings of the code are real roundings.  Time is counted   *)
(* in minutes since a Monday 00:00 local time.                             *)
(*                                                                         *)
(* Persistence follows mongoose/MongoDB: a document read by findById is a  *)
(* private copy; save() sends only the paths the handler changed ($set),   *)
(* an array push is a $push that increments the version key, a change of   *)
(* an array element is a positional $set guarded by the version key, and   *)
(* the writes of session.withTransaction commit together or not at all,    *)
(* the callback being re-run after a write conflict.                       *)
(***************************************************************************)
EXTENDS Integers, Sequences, FiniteSets, TLC

(***************************************************************************)
(* Bounds of the model.                                                    *)
(***************************************************************************)
MaxTx == 1
\* database operations that fail in one run
MaxFail == 1

Procs == {"p1", "p2"}

\* the account that requests and the account that referred it
Users == {"u1", "u2"}
Requesters == {"u1"}

\* instants the clock can show: Tuesday 00:00, Wednesday 00:00, day 60, day 61
Instants == {1440, 2880, 86400, 87840}
\* the instants of the days in which the pending requests are settled
SettleInstants == {1440, 2880}

(***************************************************************************)
(* Program constants.                                                      *)
(***************************************************************************)
MinutesPerDay == 1440
CapDays == 60
DefaultDays == 60
MinWithdraw == 2000
ReferralRatePct == 5
Cent == 10

(***************************************************************************)
(* Optional values: <<>> is null/undefined, <<v>> is the value v.          *)
(***************************************************************************)
None == <<>>
Some(v) == <<v>>
IsSome(o) == o # <<>>
Val(o) == o[1]
OrElse(o, d) == IF o # <<>> THEN o[1] ELSE d

Min(a, b) == IF a <= b THEN a ELSE b
Max(a, b) == IF a >= b THEN a ELSE b

\* Number(x.toFixed(2)) of an amount of x mills: the nearest cent, halves away from zero
Round2(x) ==
  IF x >= 0 THEN ((x + 5) \div Cent) * Cent
            ELSE 0 - ((((0 - x) + 5) \div Cent) * Cent)

(***************************************************************************)
(* utils/calcProfit.js                                                     *)
(***************************************************************************)
\* Date.getDay(): 0 is Sunday, 6 is Saturday; minute 0 is a Monday
GetDay(t) == ((t \div MinutesPerDay) + 1) % 7

AddDays(t, d) == t + d * MinutesPerDay

\* the minutes of every day, Saturdays and Sundays too
RECURSIVE BizLoopEveryDay(_, _)
BizLoopEveryDay(cur, e) ==
  IF cur < e
  THEN LET nextDay == ((cur \div MinutesPerDay) + 1) * MinutesPerDay
           segmentEnd == IF nextDay < e THEN nextDay ELSE e
       IN (segmentEnd - cur) + BizLoopEveryDay(nextDay, e)
  ELSE 0

RECURSIVE BizLoop(_, _)
BizLoop(cur, e) ==
  IF cur < e
  THEN LET nextDay == ((cur \div MinutesPerDay) + 1) * MinutesPerDay
           segmentEnd == IF nextDay < e THEN nextDay ELSE e
           here == IF GetDay(cur) # 0 /\ GetDay(cur) # 6 THEN segmentEnd - cur ELSE 0
       IN here + BizLoop(nextDay, e)
  ELSE 0

businessMinutesBetween(s, e) == IF e <= s THEN 0 ELSE BizLoop(s, e)

\* the tier table of rateForAmount, thresholds in mills, ascending
RateMapping ==
  << [amount |-> 20000, rate |-> 5], [amount |-> 50000, rate |-> 5],
     [amount |-> 100000, rate |-> 6], [amount |-> 200000, rate |-> 6],
     [amount |-> 500000, rate |-> 6], [amount |-> 1000000, rate |-> 7],
     [amount |-> 2000000, rate |-> 7], [amount |-> 5000000, rate |-> 7],
     [amount |-> 10000000, rate |-> 8], [amount |-> 20000000, rate |-> 8] >>

\* a scan that stops at the first tier from below that the amount reaches
RECURSIVE RateScanLowestFirst(_, _)
RateScanLowestFirst(amount, i) ==
  IF i = 0 THEN 5
  ELSE IF amount >= RateMapping[1].amount THEN RateMapping[1].rate
  ELSE RateScanLowestFirst(amount, i - 1)

RECURSIVE RateScan(_, _)
RateScan(amount, i) ==
  IF i = 0 THEN 5
  ELSE IF amount >= RateMapping[i].amount THEN RateMapping[i].rate
  ELSE RateScan(amount, i - 1)

rateForAmount(amount) ==
  LET exact == {i \in 1..Len(RateMapping) : RateMapping[i].amount = amount}
  IN IF exact # {} THEN RateMapping[CHOOSE i \in exact : \A j \in exact : i <= j].rate
     ELSE RateScan(amount, Len(RateMapping))

\* value in cents of k * minutes / 1440000, rounded to the nearest cent,
\* computed without leaving 32 bits (k = principal in mills * ratePercent)
ProfitCents(k, minutes) ==
  LET q == minutes \div MinutesPerDay
      r == minutes % MinutesPerDay
      a == k * q
      a1 == a \div 1000
      a0 == a % 1000
  IN a1 + ((MinutesPerDay * a0 + k * r + 720000) \div 1440000)

profitForDeposit(dep, asOf) ==
  LET start == dep.startDate
      cap == AddDays(start, CapDays)
      upto0 == IF IsSome(dep.endDate) /\ Val(dep.endDate) < asOf THEN Val(dep.endDate) ELSE asOf
      upto == IF cap < upto0 THEN cap ELSE upto0
      minutes == businessMinutesBetween(start, upto)
  IN IF start >= upto \/ minutes <= 0 THEN 0
     ELSE ProfitCents(dep.amount * dep.ratePercent, minutes) * Cent


(***************************************************************************)
(* Request inputs.                                                         *)
(***************************************************************************)
\* amounts a user asks to withdraw / deposit (mills)
WithdrawAmounts == {5000, 25000}
\* amounts of withdrawal requests taken on their own: negative, nothing, a cent
\* below the minimum, the minimum, a cent above it, all that is available
\* on Tuesday (6.00), a cent more, and 25.00
RequestAmounts == {0 - 5000, 0, 1990, 2000, 2010, 6000, 6010, 25000}
DepositAmounts == {100000}
\* plan sent with a deposit request: none, or a 30 day plan at 5 percent
Plans == {None, Some([ratePercent |-> Some(5), rate |-> None, days |-> Some(30)])}
\* approvedAmount of the administrator's request body (absent, or a number)
WithdrawOverrides == {None, Some(10000)}
DepositOverrides == {None}
\* approvedAmount values of approvals of withdrawals taken one at a time:
\* absent, nothing, a negative number, twice the request
AnyWithdrawOverrides == {None, Some(0), Some(0 - 5000), Some(10000)}
\* approvedAmount values of approvals taken one at a time: absent, half the
\* request, a negative number
ApproveOverrides == {None, Some(50000), Some(0 - 150000)}
\* amounts of the deposit request such an approval settles: 100.00, 100.01
ApproveAmounts == {100000, 100010}
\* referral commission an account holds at the start (earlier commissions)
StartCommissions == {0, 20000}
\* balances and amounts deductFromUser is applied to on its own (mills);
\* balances are whole cents as every save leaves them, amounts are any number
DeductProfits == {0, 10000, 30000}
DeductCommissions == {0, 5000, 20000}
DeductAmounts == {0 - 5000, 0, 2504, 10000, 25000, 40000, 40004, 60000}

(***************************************************************************)
(* State.                                                                  *)
(***************************************************************************)
VARIABLES
  users,    \* the User collection: id -> document
  txs,      \* the Transaction collection: sequence of documents, id = index
  audits,   \* the Audit collection: <<action, tx id>> -> number of entries
  now,      \* the clock (new Date())
  pc,       \* where each request handler stands
  loc,      \* the local variables of each request handler
  resp,     \* the response sent by the last step, if it sent one
  gh,       \* history per transaction id: what was committed on its behalf
  fails,    \* database operations that failed so far
  fin,      \* the arguments of a function applied on its own
  fout      \* its result

vars == <<users, txs, audits, now, pc, loc, resp, gh, fails, fin, fout>>

AuditActions == {"approve-withdraw", "reject-withdraw", "approve-deposit", "reject-deposit"}

NoLoc ==
  [t |-> 0, u |-> "u1", amt |-> 0, tx |-> None, user |-> None,
   ov |-> None, ref |-> None, refDoc |-> None, start |-> 0, gross |-> 0, calc |-> 0,
   method |-> TRUE, seen |-> 0, op |-> "none", again |-> FALSE]

\* mail: what became of the notifications of the request ("none": none attempted)
NoResp ==
  [op |-> "none", t |-> 0, arg |-> None, code |-> "none", from |-> "none", mail |-> "none"]

NoHist == [okApprove |-> 0, okReject |-> 0, deducted |-> 0, applied |-> 0, credited |-> 0]

(***************************************************************************)
(* approveDeposit: the terms of the deposit and the commission             *)
(***************************************************************************)
\* a resolution that looks at the rate of the transaction before the plan
TxRateFirst(tx, amt) ==
  IF IsSome(tx.ratePercent) THEN Val(tx.ratePercent)
  ELSE IF IsSome(tx.plan) /\ IsSome(Val(tx.plan).ratePercent) THEN Val(Val(tx.plan).ratePercent)
  ELSE IF IsSome(tx.plan) /\ IsSome(Val(tx.plan).rate) THEN Val(Val(tx.plan).rate)
  ELSE rateForAmount(amt)

\* the plan counts when its ratePercent or its rate is a number
PlanRate(tx, amt) ==
  IF IsSome(tx.plan) /\ (IsSome(Val(tx.plan).ratePercent) \/ IsSome(Val(tx.plan).rate))
  THEN IF IsSome(Val(tx.plan).ratePercent) THEN Val(Val(tx.plan).ratePercent)
       ELSE Val(Val(tx.plan).rate)
  ELSE IF IsSome(tx.ratePercent) THEN Val(tx.ratePercent)
  ELSE rateForAmount(amt)

\* a days value of 0 is falsy and falls through to the next source
PlanDays(tx) ==
  IF IsSome(tx.plan) /\ IsSome(Val(tx.plan).days) /\ Val(Val(tx.plan).days) # 0
  THEN Val(Val(tx.plan).days)
  ELSE IF IsSome(tx.days) /\ Val(tx.days) # 0 THEN Val(tx.days)
  ELSE DefaultDays

\* a deposit of the requested amount, whatever amount was approved
DepositAsRequested(tx, t, amt, start) ==
  [amount |-> tx.amount, ratePercent |-> PlanRate(tx, amt), days |-> PlanDays(tx),
   startDate |-> start, endDate |-> Some(AddDays(start, PlanDays(tx))),
   status |-> "active", srcTx |-> t]

NewDeposit(tx, t, amt, start) ==
  [amount |-> amt, ratePercent |-> PlanRate(tx, amt), days |-> PlanDays(tx),
   startDate |-> start, endDate |-> Some(AddDays(start, PlanDays(tx))),
   status |-> "active", srcTx |-> t]

ApprovedDepositTx(tx, amt) ==
  [tx EXCEPT !.status = "approved", !.remark = "approved", !.approvedAmount = Some(amt),
             !.appliedRate = Some(PlanRate(tx, amt)), !.appliedDays = Some(PlanDays(tx))]


\* a commission of a tenth of the amount
CommissionTenth(amt) == Round2(amt \div 10)

\* Number((amt * referralRate).toFixed(2)) at the default rate 0.05
Commission(amt) ==
  IF amt >= 0 THEN ((2 * amt * ReferralRatePct + 1000) \div 2000) * Cent
  ELSE 0 - (((2 * (0 - amt) * ReferralRatePct + 1000) \div 2000) * Cent)


(***************************************************************************)
(* The history the model starts from, a Tuesday 00:00.  Account u2 was     *)
(* registered first, u1 with u2's referral code (createUser left a         *)
(* snapshot entry in u2).  u1's first deposit request was approved on      *)
(* Monday 00:00, its second was rejected.  u1 has just asked to withdraw   *)
(* (createWithdrawRequest persisted the recomputed netProfit and recorded  *)
(* it in the request) and to deposit again; both requests are pending.     *)
(* u1 may hold referral commission from earlier.                           *)
(***************************************************************************)
NewTx(u, type, amount, plan, snapNet) ==
  [user |-> u, type |-> type, amount |-> amount, status |-> "pending", remark |-> "",
   plan |-> plan, ratePercent |-> None, days |-> None, snapNet |-> snapNet,
   approvedAmount |-> None, fromNet |-> None, appliedRate |-> None, appliedDays |-> None]

SeedRequest == NewTx("u1", "deposit", 100000, None, 0)

SeedDeposit == NewDeposit(SeedRequest, 1, 100000, 0)

SeedNet == Round2(profitForDeposit(SeedDeposit, 1440))

SeedTxs ==
  << ApprovedDepositTx(SeedRequest, 100000),
     [SeedRequest EXCEPT !.status = "rejected", !.remark = "rejected"],
     NewTx("u1", "withdraw", 5000, None, SeedNet),
     SeedRequest >>

TxIds == 1..(Len(SeedTxs) + MaxTx)

SeedUsers(commission) ==
  [u \in Users |->
     IF u = "u1"
     THEN [capital |-> Round2(0 + 100000), netProfit |-> SeedNet, referralEarnings |-> commission,
           deposits |-> << SeedDeposit >>, referrals |-> <<>>, v |-> 1]
     ELSE [capital |-> 0, netProfit |-> 0, referralEarnings |-> Commission(100000),
           deposits |-> <<>>,
           referrals |-> << [user |-> "u1", capital |-> 100000,
                             commissionEarned |-> Commission(100000)] >>,
           v |-> 0]]

SeedAudits ==
  [k \in AuditActions \X TxIds |->
     IF k = <<"approve-deposit", 1>> \/ k = <<"reject-deposit", 2>> THEN 1 ELSE 0]

SeedHist ==
  [t \in TxIds |->
     IF t = 1 THEN [NoHist EXCEPT !.okApprove = 1, !.applied = 1, !.credited = 1]
     ELSE IF t = 2 THEN [NoHist EXCEPT !.okReject = 1]
     ELSE NoHist]

NoInput == <<>>

Init ==
  /\ \E c \in StartCommissions : users = SeedUsers(c)
  /\ txs = SeedTxs
  /\ audits = SeedAudits
  /\ now = 1440
  /\ pc = [p \in Procs |-> "idle"]
  /\ loc = [p \in Procs |-> NoLoc]
  /\ resp = NoResp
  /\ gh = SeedHist
  /\ fails = 0
  /\ fin = NoInput
  /\ fout = NoInput

Exists(t) == t \in 1..Len(txs)

\* settlements committed so far on the transactions of account u
RECURSIVE SettledUpTo(_, _)
SettledUpTo(u, n) ==
  IF n = 0 THEN 0
  ELSE SettledUpTo(u, n - 1)
       + (IF txs[n].user = u THEN gh[n].deducted + gh[n].applied ELSE 0)
SettledCount(u) == SettledUpTo(u, Len(txs))

Respond(p, op, t, arg, code) ==
  /\ pc' = [pc EXCEPT ![p] = "idle"]
  /\ loc' = [loc EXCEPT ![p] = NoLoc]
  /\ resp' = [op |-> op, t |-> t, arg |-> arg, code |-> code, from |-> pc[p],
              mail |-> "none"]

\* sendMail or sendAdminNotification either resolves or throws
MailOutcomes == {"sent", "failed"}

\* a handler that answers with an error when a notification throws
NotifiedOrError(p, op, t, arg, mail) ==
  /\ pc' = [pc EXCEPT ![p] = "idle"]
  /\ loc' = [loc EXCEPT ![p] = NoLoc]
  /\ resp' = [op |-> op, t |-> t, arg |-> arg,
              code |-> IF mail = "failed" THEN "error" ELSE "ok", from |-> pc[p],
              mail |-> mail]

\* try { await sendMail(...) } catch (e) { console.warn(...) } ... res.json(...):
\* the answer is the same whatever became of the notifications
Notified(p, op, t, arg, mail) ==
  /\ pc' = [pc EXCEPT ![p] = "idle"]
  /\ loc' = [loc EXCEPT ![p] = NoLoc]
  /\ resp' = [op |-> op, t |-> t, arg |-> arg, code |-> "ok", from |-> pc[p],
              mail |-> mail]

Goto(p, label, l) ==
  /\ pc' = [pc EXCEPT ![p] = label]
  /\ loc' = [loc EXCEPT ![p] = l]
  /\ resp' = NoResp

AddAudit(action, t) == [audits EXCEPT ![<<action, t>>] = @ + 1]

\* the variables of the functions applied on their own stay as they are
Idle == UNCHANGED <<fails, fin, fout>>

(***************************************************************************)
(* The clock.                                                              *)
(***************************************************************************)
Advance(instants) ==
  /\ \E t \in instants : t > now /\ now' = t
  /\ resp' = NoResp
  /\ UNCHANGED <<users, txs, audits, pc, loc, gh, fails, fin, fout>>

Tick == Advance(Instants)

\* the clock within the days of settlement
TickDay == Advance(SettleInstants)

(***************************************************************************)
(* controllers/userController.js: computeNetProfit                         *)
(***************************************************************************)
RECURSIVE SumProfit(_, _, _)
SumProfit(deps, i, asOf) ==
  IF i = 0 THEN 0
  ELSE SumProfit(deps, i - 1, asOf)
       + (IF deps[i].status = "active" THEN profitForDeposit(deps[i], asOf) ELSE 0)

\* step 1: gross profit of the active deposits of the loaded user
GrossProfit(user, asOf) == SumProfit(user.deposits, Len(user.deposits), asOf)

\* an inference that takes every approved amount to have come out of the profit
ApprovedInFull(tx) == OrElse(tx.approvedAmount, tx.amount)

\* what one approved withdrawal took from netProfit, as computeNetProfit infers it
InferredFromNet(tx) ==
  IF IsSome(tx.fromNet) THEN Val(tx.fromNet)
  ELSE Min(tx.snapNet, OrElse(tx.approvedAmount, tx.amount))

RECURSIVE SumWithdrawn(_, _, _)
SumWithdrawn(store, i, u) ==
  IF i = 0 THEN 0
  ELSE SumWithdrawn(store, i - 1, u)
       + (IF store[i].user = u /\ store[i].type = "withdraw" /\ store[i].status = "approved"
          THEN InferredFromNet(store[i]) ELSE 0)

\* step 2: Transaction.find({user, type: 'withdraw', status: 'approved'})
WithdrawnFromNet(store, u) == SumWithdrawn(store, Len(store), u)

\* step 3: clamp at zero and round
AvailableNet(gross, withdrawn) ==
  IF gross - withdrawn < 0 THEN 0 ELSE Round2(gross - withdrawn)

computeNetProfit(user, u, asOf, store) ==
  AvailableNet(GrossProfit(user, asOf), WithdrawnFromNet(store, u))


(***************************************************************************)
(* computeNetProfit applied on its own to an account and a collection of   *)
(* transactions.                                                           *)
(***************************************************************************)
\* deposits of the account: none, active, completed, two of them
NetDepositLists ==
  LET act == SeedDeposit
      done == [SeedDeposit EXCEPT !.status = "completed"]
  IN {<<>>, <<act>>, <<done>>, <<act, act>>, <<act, done>>}

\* transactions the collection may hold: approved withdrawals of the account
\* with and without approved amount and breakdown, a pending one, an approved
\* withdrawal of the other account, an approved deposit
NetTxs ==
  LET req(snap) == NewTx("u1", "withdraw", 5000, None, snap)
      ok(tx) == [tx EXCEPT !.status = "approved", !.remark = "approved"]
  IN { ok(req(6000)),
       [ok(req(6000)) EXCEPT !.approvedAmount = Some(2505)],
       [ok(req(1000)) EXCEPT !.approvedAmount = Some(8000)],
       [ok(req(6000)) EXCEPT !.approvedAmount = Some(8000), !.fromNet = Some(3000)],
       req(6000),
       [ok(req(6000)) EXCEPT !.user = "u2"],
       SeedTxs[1] }

NetStores == {<<>>} \cup {<<a>> : a \in NetTxs} \cup {<<a, b>> : a \in NetTxs, b \in NetTxs}

InitNet ==
  /\ users = SeedUsers(0)
  /\ txs = SeedTxs
  /\ audits = SeedAudits
  /\ now = 1440
  /\ pc = [p \in Procs |-> "idle"]
  /\ loc = [p \in Procs |-> NoLoc]
  /\ resp = NoResp
  /\ gh = SeedHist
  /\ fails = 0
  /\ \E deps \in NetDepositLists, store \in NetStores, asOf \in SettleInstants :
       fin = Some([user |-> [SeedUsers(0)["u1"] EXCEPT !.deposits = deps],
                   store |-> store, asOf |-> asOf])
  /\ fout = NoInput

NetApply ==
  /\ IsSome(fin)
  /\ fout = NoInput
  /\ fout' = Some(computeNetProfit(Val(fin).user, "u1", Val(fin).asOf, Val(fin).store))
  /\ UNCHANGED <<users, txs, audits, now, pc, loc, resp, gh, fails, fin>>

SpecNet == InitNet /\ [][NetApply]_vars

(***************************************************************************)
(* The terms approveDeposit resolves, applied on their own to a deposit    *)
(* transaction (plan of the request, rate and days stored on the           *)
(* transaction itself by older records) and an approved amount.            *)
(***************************************************************************)
TermPlans ==
  {None} \cup {Some([ratePercent |-> a, rate |-> b, days |-> c]) :
                 a \in {None, Some(0), Some(5)}, b \in {None, Some(9)}, c \in {None, Some(30)}}

TermTxs ==
  {[NewTx("u1", "deposit", amount, plan, 0) EXCEPT !.ratePercent = r, !.days = d] :
     amount \in {19000, 100000, 10000000}, plan \in TermPlans,
     r \in {None, Some(7)}, d \in {None, Some(45)}}

InitTerms ==
  /\ users = SeedUsers(0)
  /\ txs = SeedTxs
  /\ audits = SeedAudits
  /\ now = 1440
  /\ pc = [p \in Procs |-> "idle"]
  /\ loc = [p \in Procs |-> NoLoc]
  /\ resp = NoResp
  /\ gh = SeedHist
  /\ fails = 0
  /\ \E tx \in TermTxs, ov \in {None, Some(50000)} :
       fin = Some([tx |-> tx, amt |-> OrElse(ov, tx.amount)])
  /\ fout = NoInput

TermsApply ==
  /\ IsSome(fin)
  /\ fout = NoInput
  /\ fout' = Some([deposit |-> NewDeposit(Val(fin).tx, 4, Val(fin).amt, now),
                   tx |-> ApprovedDepositTx(Val(fin).tx, Val(fin).amt)])
  /\ UNCHANGED <<users, txs, audits, now, pc, loc, resp, gh, fails, fin>>

SpecTerms == InitTerms /\ [][TermsApply]_vars

(***************************************************************************)
(* profitForDeposit applied on its own to one deposit as time passes       *)
(***************************************************************************)
\* amounts (mills), daily rates and plan days of the deposit; the rate and the
\* days come from the plan of the request (any number the request carries)
AccrualAmounts == {33330, 100000}
AccrualRates == {0 - 5, 0, 5, 8}
AccrualDays == {30, 60, 90}
\* approval instants: Tuesday 00:00, Friday 16:40, Saturday 10:00
AccrualStarts == {1440, 6760, 7800}
\* asOf moves on by 16 h 40 min up to beyond the longest plan
AccrualStep == 1000
AccrualHorizon == 140000

AccrualTx(amount, rate, days) ==
  NewTx("u1", "deposit", amount,
        Some([ratePercent |-> Some(rate), rate |-> None, days |-> Some(days)]), 0)

\* the deposit approveDeposit stores for the request; one stored without endDate
AccrualDeposit(amount, rate, days, start, ended) ==
  LET dep == NewDeposit(AccrualTx(amount, rate, days), 4, amount, start)
  IN IF ended THEN dep ELSE [dep EXCEPT !.endDate = None]

InitAccrual ==
  /\ users = SeedUsers(0)
  /\ txs = SeedTxs
  /\ audits = SeedAudits
  /\ now = 0
  /\ pc = [p \in Procs |-> "idle"]
  /\ loc = [p \in Procs |-> NoLoc]
  /\ resp = NoResp
  /\ gh = SeedHist
  /\ fails = 0
  /\ \E amount \in AccrualAmounts, rate \in AccrualRates, days \in AccrualDays,
        start \in AccrualStarts, ended \in BOOLEAN :
       fin = Some([amount |-> amount, rate |-> rate, start |-> start,
                   dep |-> AccrualDeposit(amount, rate, days, start, ended)])
  /\ fout = NoInput

AccrualApply ==
  /\ IsSome(fin)
  /\ now + AccrualStep <= AccrualHorizon
  /\ now' = now + AccrualStep
  /\ fout' = Some([profit |-> profitForDeposit(Val(fin).dep, now')])
  /\ UNCHANGED <<users, txs, audits, pc, loc, resp, gh, fails, fin>>

SpecAccrual == InitAccrual /\ [][AccrualApply]_vars

(***************************************************************************)
(* rateForAmount applied on its own to two amounts                         *)
(***************************************************************************)
\* each threshold of the table, a cent below and a cent above it, nothing,
\* 19.00 and 30000.00 (mills)
RateAmounts ==
  UNION {{RateMapping[i].amount - Cent, RateMapping[i].amount, RateMapping[i].amount + Cent} :
           i \in 1..Len(RateMapping)}
    \cup {0, 19000, 30000000}

InitRate ==
  /\ users = SeedUsers(0)
  /\ txs = SeedTxs
  /\ audits = SeedAudits
  /\ now = 1440
  /\ pc = [p \in Procs |-> "idle"]
  /\ loc = [p \in Procs |-> NoLoc]
  /\ resp = NoResp
  /\ gh = SeedHist
  /\ fails = 0
  /\ \E lo \in RateAmounts, hi \in RateAmounts :
       lo <= hi /\ fin = Some([lo |-> lo, hi |-> hi])
  /\ fout = NoInput

RateApply ==
  /\ IsSome(fin)
  /\ fout = NoInput
  /\ fout' = Some([lo |-> rateForAmount(Val(fin).lo), hi |-> rateForAmount(Val(fin).hi)])
  /\ UNCHANGED <<users, txs, audits, now, pc, loc, resp, gh, fails, fin>>

SpecRate == InitRate /\ [][RateApply]_vars

(***************************************************************************)
(* controllers/userController.js: getOverview, maturity of deposits        *)
(***************************************************************************)
\* maturity judged by the elapsed time alone
ElapsedOnly(dep, asOf) == asOf >= AddDays(dep.startDate, CapDays)

Matured(dep, asOf) == dep.status = "active" /\ asOf >= AddDays(dep.startDate, CapDays)

\* a finalization that keeps the end date written at approval
KeepEndDate(dep, asOf) ==
  IF Matured(dep, asOf) THEN [dep EXCEPT !.status = "completed"] ELSE dep

FinalizeDeposit(dep, asOf) ==
  IF Matured(dep, asOf)
  THEN [dep EXCEPT !.status = "completed", !.endDate = Some(AddDays(dep.startDate, CapDays))]
  ELSE dep

RECURSIVE CapitalAfter(_, _, _, _)
\* the loop of getOverview over deposits 1..n: each matured deposit is
\* subtracted from the capital, which is clamped at zero each time
CapitalAfter(capital, deps, n, asOf) ==
  IF n = 0 THEN capital
  ELSE LET before == CapitalAfter(capital, deps, n - 1, asOf)
       IN IF Matured(deps[n], asOf) THEN Max(before - deps[n].amount, 0) ELSE before

\* the user document as getOverview holds it after its maturity loop
FinalizeUser(user, asOf) ==
  [user EXCEPT !.deposits = [i \in DOMAIN user.deposits |-> FinalizeDeposit(user.deposits[i], asOf)],
               !.capital = CapitalAfter(user.capital, user.deposits, Len(user.deposits), asOf)]

\* a loop that reports a change for every deposit past its window
AnyElapsed(user, asOf) == \E i \in DOMAIN user.deposits : ElapsedOnly(user.deposits[i], asOf)

MadeChanges(user, asOf) == \E i \in DOMAIN user.deposits : Matured(user.deposits[i], asOf)

(***************************************************************************)
(* controllers/adminController.js: deductFromUser                          *)
(***************************************************************************)
\* a deduction that draws on the referral commission first
deductCommissionFirst(net0, ref0, amount) ==
  LET fromRef == Min(ref0, amount)
      ref1 == ref0 - fromRef
      rem1 == amount - fromRef
      fromNet == Min(net0, rem1)
      net1 == net0 - fromNet
      rem2 == rem1 - fromNet
  IN [netAfter |-> Round2(net1), refAfter |-> Round2(ref1), shortfall |-> Round2(rem2),
      fromNet |-> fromNet, fromRef |-> fromRef]

\* a deduction that takes from the profit only
deductFromProfitOnly(net0, ref0, amount) ==
  LET fromNet == Min(net0, amount)
      net1 == net0 - fromNet
      rem1 == amount - fromNet
  IN [netAfter |-> Round2(net1), refAfter |-> Round2(ref0), shortfall |-> Round2(rem1),
      fromNet |-> fromNet, fromRef |-> 0]

deductFromUser(net0, ref0, amount) ==
  LET fromNet == Min(net0, amount)
      net1 == net0 - fromNet
      rem1 == amount - fromNet
      fromRef == Min(ref0, rem1)
      ref1 == ref0 - fromRef
      rem2 == rem1 - fromRef
  IN [netAfter |-> Round2(net1), refAfter |-> Round2(ref1), shortfall |-> Round2(rem2),
      fromNet |-> fromNet, fromRef |-> fromRef]

(***************************************************************************)
(* approveWithdraw: the callback of session.withTransaction works on the   *)
(* snapshot taken by its first read; its writes commit together.           *)
(***************************************************************************)
\* a lookup that does not look at the kind of the transaction
UnknownId(t) == ~Exists(t)

WithdrawNotFound(t) == ~Exists(t) \/ txs[t].type # "withdraw"

\* a status check that lets every transaction through
NeverSettled(tx) == FALSE

NotPending(tx) == tx.status # "pending"

\* a validation that lets every amount through
NeverExceeds(user, approveAmt) == FALSE

\* a validation that counts the capital as withdrawable
ExceedsPortfolio(user, approveAmt) ==
  approveAmt > user.capital + user.netProfit + user.referralEarnings

ExceedsAvailable(user, approveAmt) == approveAmt > user.netProfit + user.referralEarnings

AWBody(p, t, ov) ==
  IF WithdrawNotFound(t) THEN Respond(p, "approveWithdraw", t, ov, "not_found")
  ELSE IF NotPending(txs[t]) THEN Respond(p, "approveWithdraw", t, ov, "invalid_state")
  ELSE LET u == txs[t].user
           approveAmt == OrElse(ov, txs[t].amount)
       IN IF ExceedsAvailable(users[u], approveAmt)
          THEN Respond(p, "approveWithdraw", t, ov, "validation")
          ELSE Goto(p, "aw_commit",
                    [NoLoc EXCEPT !.t = t, !.u = u, !.ov = ov, !.amt = approveAmt,
                                  !.tx = Some(txs[t]), !.user = Some(users[u])])

AWBegin(p) ==
  /\ pc[p] = "idle"
  /\ \E t \in TxIds, ov \in WithdrawOverrides : AWBody(p, t, ov)
  /\ UNCHANGED <<users, txs, audits, now, gh>>
  /\ Idle

\* approveWithdraw with an approvedAmount of any value
AWBeginAny(p) ==
  /\ pc[p] = "idle"
  /\ \E t \in TxIds, ov \in AnyWithdrawOverrides : AWBody(p, t, ov)
  /\ UNCHANGED <<users, txs, audits, now, gh>>
  /\ Idle

\* withTransaction runs the callback again after a write conflict
AWRetry(p) ==
  /\ pc[p] = "aw_retry"
  /\ AWBody(p, loc[p].t, loc[p].ov)
  /\ UNCHANGED <<users, txs, audits, now, gh>>
  /\ Idle

ApprovedWithdrawTx(tx, approveAmt) ==
  [tx EXCEPT !.status = "approved", !.remark = "approved", !.approvedAmount = Some(approveAmt)]

\* writes that never conflict
NoConflict(current, snapshot) == FALSE

\* a document written inside the transaction conflicts when it changed since the snapshot
WriteConflict(current, snapshot) == current # snapshot

AWCommit(p) ==
  /\ pc[p] = "aw_commit"
  /\ LET l == loc[p]
         sUser == Val(l.user)
         sTx == Val(l.tx)
         r == deductFromUser(sUser.netProfit, sUser.referralEarnings, l.amt)
         newUser == [sUser EXCEPT !.netProfit = r.netAfter, !.referralEarnings = r.refAfter]
         conflict == \/ WriteConflict(txs[l.t], sTx)
                     \/ (newUser # sUser /\ WriteConflict(users[l.u], sUser))
     IN IF conflict
        THEN /\ Goto(p, "aw_retry", l)
             /\ UNCHANGED <<users, txs, audits, gh>>
        ELSE /\ users' = [users EXCEPT ![l.u].netProfit = r.netAfter,
                                       ![l.u].referralEarnings = r.refAfter]
             /\ txs' = [txs EXCEPT ![l.t] = ApprovedWithdrawTx(sTx, l.amt)]
             /\ audits' = AddAudit("approve-withdraw", l.t)
             /\ gh' = [gh EXCEPT ![l.t].deducted = @ + 1]
             /\ Goto(p, "aw_notify", [l EXCEPT !.user = Some(newUser)])
  /\ UNCHANGED now
  /\ Idle

\* any step inside the callback throws: the transaction aborts
AWFail(p) ==
  /\ pc[p] = "aw_commit"
  /\ fails < MaxFail
  /\ fails' = fails + 1
  /\ Respond(p, "approveWithdraw", loc[p].t, loc[p].ov, "error")
  /\ UNCHANGED <<users, txs, audits, now, gh, fin, fout>>

\* after the commit: sendMail, sendAdminNotification, res.json
AWNotify(p) ==
  /\ pc[p] = "aw_notify"
  /\ gh' = [gh EXCEPT ![loc[p].t].okApprove = @ + 1]
  /\ \E mail \in MailOutcomes : Notified(p, "approveWithdraw", loc[p].t, loc[p].ov, mail)
  /\ UNCHANGED <<users, txs, audits, now>>
  /\ Idle

(***************************************************************************)
(* rejectWithdraw, rejectDeposit                                           *)
(***************************************************************************)
RejectOp(kind) == IF kind = "withdraw" THEN "rejectWithdraw" ELSE "rejectDeposit"
RejectAudit(kind) == IF kind = "withdraw" THEN "reject-withdraw" ELSE "reject-deposit"

RejectRead(p, kind) ==
  /\ pc[p] = "idle"
  /\ \E t \in TxIds :
       IF ~Exists(t) \/ txs[t].type # kind THEN Respond(p, RejectOp(kind), t, None, "not_found")
       ELSE IF NotPending(txs[t]) THEN Respond(p, RejectOp(kind), t, None, "invalid_state")
       ELSE Goto(p, "rj_save", [NoLoc EXCEPT !.t = t, !.u = txs[t].user, !.tx = Some(txs[t]),
                                             !.op = RejectOp(kind)])
  /\ UNCHANGED <<users, txs, audits, now, gh>>
  /\ Idle

rejectWithdrawRead(p) == RejectRead(p, "withdraw")
rejectDepositRead(p) == RejectRead(p, "deposit")

\* a rejection that also hands the requested amount back to the account
RejectSaveAndRefund(p) ==
  /\ pc[p] = "rj_save"
  /\ txs' = [txs EXCEPT ![loc[p].t].status = "rejected", ![loc[p].t].remark = "rejected"]
  /\ users' = [users EXCEPT ![loc[p].u].netProfit = @ + Val(loc[p].tx).amount]
  /\ Goto(p, "rj_audit", loc[p])
  /\ UNCHANGED <<audits, now, gh>>
  /\ Idle

\* tx.save() sends the changed paths: status, adminRemarks
RejectSave(p) ==
  /\ pc[p] = "rj_save"
  /\ txs' = [txs EXCEPT ![loc[p].t].status = "rejected", ![loc[p].t].remark = "rejected"]
  /\ Goto(p, "rj_audit", loc[p])
  /\ UNCHANGED <<users, audits, now, gh>>
  /\ Idle

\* Audit.create, the notifications, res.json
RejectFinish(p) ==
  /\ pc[p] = "rj_audit"
  /\ LET kind == IF loc[p].op = RejectOp("withdraw") THEN "withdraw" ELSE "deposit"
     IN /\ audits' = AddAudit(RejectAudit(kind), loc[p].t)
        /\ gh' = [gh EXCEPT ![loc[p].t].okReject = @ + 1]
        /\ \E mail \in MailOutcomes : Notified(p, loc[p].op, loc[p].t, None, mail)
  /\ UNCHANGED <<users, txs, now>>
  /\ Idle


(***************************************************************************)
(* approveDeposit: no session; every await is a separate step              *)
(***************************************************************************)
DepositNotFound(t) == ~Exists(t) \/ txs[t].type # "deposit"

ADRead(p, overrides) ==
  /\ pc[p] = "idle"
  /\ \E t \in TxIds, ov \in overrides :
       IF DepositNotFound(t) THEN Respond(p, "approveDeposit", t, ov, "not_found")
       ELSE IF NotPending(txs[t]) THEN Respond(p, "approveDeposit", t, ov, "invalid_state")
       ELSE Goto(p, "ad_user",
                 [NoLoc EXCEPT !.t = t, !.u = txs[t].user, !.ov = ov,
                               !.amt = OrElse(ov, txs[t].amount), !.tx = Some(txs[t])])
  /\ UNCHANGED <<users, txs, audits, now, gh>>
  /\ Idle

ADReadTx(p) == ADRead(p, DepositOverrides)

\* the same with any approvedAmount in the request body
ADReadTxAny(p) == ADRead(p, ApproveOverrides)

\* User.findById, then (without an await) the plan is resolved and startDate = new Date()
ADReadUser(p) ==
  /\ pc[p] = "ad_user"
  /\ Goto(p, "ad_saveuser", [loc[p] EXCEPT !.user = Some(users[loc[p].u]), !.start = now])
  /\ UNCHANGED <<users, txs, audits, now, gh>>
  /\ Idle

\* user.save(): $push of the deposit (version key incremented), $set of capital
ADSaveUser(p) ==
  /\ pc[p] = "ad_saveuser"
  /\ LET l == loc[p]
         dep == NewDeposit(Val(l.tx), l.t, l.amt, l.start)
         capital == Round2(Val(l.user).capital + l.amt)
     IN /\ users' = [users EXCEPT ![l.u].deposits = Append(@, dep),
                                  ![l.u].capital = IF capital # Val(l.user).capital THEN capital ELSE @,
                                  ![l.u].v = @ + 1]
        /\ gh' = [gh EXCEPT ![l.t].applied = @ + 1]
        /\ Goto(p, "ad_savetx", l)
  /\ UNCHANGED <<txs, audits, now>>
  /\ Idle

\* tx.save(): $set of status, adminRemarks, details of the local copy
ADSaveTx(p) ==
  /\ pc[p] = "ad_savetx"
  /\ LET l == loc[p]
         new == ApprovedDepositTx(Val(l.tx), l.amt)
     IN txs' = [txs EXCEPT ![l.t].status = new.status, ![l.t].remark = new.remark,
                           ![l.t].approvedAmount = new.approvedAmount,
                           ![l.t].appliedRate = new.appliedRate,
                           ![l.t].appliedDays = new.appliedDays]
  /\ Goto(p, "ad_audit", loc[p])
  /\ UNCHANGED <<users, audits, now, gh>>
  /\ Idle

ADAudit(p) ==
  /\ pc[p] = "ad_audit"
  /\ audits' = AddAudit("approve-deposit", loc[p].t)
  /\ Goto(p, "ad_findref", loc[p])
  /\ UNCHANGED <<users, txs, now, gh>>
  /\ Idle

\* user.referredBy is no path of the User schema; the referrer is found by
\* User.findOne({'referrals.user': user._id})
Referrers(u) == {r \in Users : \E i \in DOMAIN users[r].referrals : users[r].referrals[i].user = u}

ADFindRef(p) ==
  /\ pc[p] = "ad_findref"
  /\ IF Referrers(loc[p].u) = {}
     THEN Goto(p, "ad_notify", loc[p])
     ELSE LET r == CHOOSE r \in Referrers(loc[p].u) : TRUE
          IN Goto(p, "ad_saveref", [loc[p] EXCEPT !.ref = Some(r), !.refDoc = Some(users[r])])
  /\ UNCHANGED <<users, txs, audits, now, gh>>
  /\ Idle

EntryIndex(doc, u) ==
  LET hits == {i \in DOMAIN doc.referrals : doc.referrals[i].user = u}
  IN IF hits = {} THEN 0 ELSE CHOOSE i \in hits : \A j \in hits : i <= j

\* referrer.save(): $set of referralEarnings; an existing entry is changed in
\* place (positional $set, refused when the version key moved), a new one is pushed
ADSaveRef(p) ==
  /\ pc[p] = "ad_saveref"
  /\ LET l == loc[p]
         r == Val(l.ref)
         doc == Val(l.refDoc)
         c == Commission(l.amt)
         i == EntryIndex(doc, l.u)
         inPlace == i # 0 /\ (l.amt # 0 \/ c # 0)
     IN IF inPlace /\ users[r].v # doc.v
        THEN /\ Respond(p, "approveDeposit", l.t, l.ov, "error")
             /\ UNCHANGED <<users, gh>>
        ELSE /\ users' =
                  [users EXCEPT
                     ![r].referralEarnings = IF c # 0 THEN doc.referralEarnings + c ELSE @,
                     ![r].referrals =
                        IF i # 0
                        THEN [@ EXCEPT ![i].capital =
                                          IF l.amt # 0 THEN doc.referrals[i].capital + l.amt ELSE @,
                                       ![i].commissionEarned =
                                          IF c # 0 THEN doc.referrals[i].commissionEarned + c ELSE @]
                        ELSE Append(@, [user |-> l.u, capital |-> l.amt, commissionEarned |-> c]),
                     ![r].v = IF i # 0 THEN @ ELSE @ + 1]
             /\ gh' = [gh EXCEPT ![l.t].credited = @ + 1]
             /\ Goto(p, "ad_notify", l)
  /\ UNCHANGED <<txs, audits, now>>
  /\ Idle

ADNotify(p) ==
  /\ pc[p] = "ad_notify"
  /\ gh' = [gh EXCEPT ![loc[p].t].okApprove = @ + 1]
  /\ \E mail \in MailOutcomes : Notified(p, "approveDeposit", loc[p].t, loc[p].ov, mail)
  /\ UNCHANGED <<users, txs, audits, now>>
  /\ Idle

\* an await of approveDeposit rejects (database error): next(err), what was saved stays
ADFail(p) ==
  /\ pc[p] \in {"ad_user", "ad_saveuser", "ad_savetx", "ad_audit", "ad_findref", "ad_saveref"}
  /\ fails < MaxFail
  /\ fails' = fails + 1
  /\ Respond(p, "approveDeposit", loc[p].t, loc[p].ov, "error")
  /\ UNCHANGED <<users, txs, audits, now, gh, fin, fout>>

(***************************************************************************)
(* getOverview                                                             *)
(***************************************************************************)
\* the previous step completed an overview taken at this same instant
JustOverviewed == resp.op = "getOverview" /\ resp.code = "ok" /\ resp.arg = Some(now)

OVRead(p) ==
  /\ pc[p] = "idle"
  /\ \E u \in Requesters :
       LET user == FinalizeUser(users[u], now)
           l == [NoLoc EXCEPT !.u = u, !.user = Some(users[u]), !.start = now,
                             !.seen = SettledCount(u), !.again = JustOverviewed]
       IN IF MadeChanges(users[u], now)
          THEN Goto(p, "ov_save1", l)
          ELSE Goto(p, "ov_find", [l EXCEPT !.gross = GrossProfit(user, now)])
  /\ UNCHANGED <<users, txs, audits, now, gh>>
  /\ Idle

\* user.save() of the finalized deposits: positional $set of status and endDate
\* guarded by the version key, $set of capital; then computeNetProfit starts
OVSave1(p) ==
  /\ pc[p] = "ov_save1"
  /\ LET l == loc[p]
         old == Val(l.user)
         new == FinalizeUser(old, l.start)
     IN IF users[l.u].v # old.v
        THEN /\ Respond(p, "getOverview", 0, None, "error")
             /\ UNCHANGED users
        ELSE /\ users' =
                  [users EXCEPT
                     ![l.u].deposits =
                        [i \in DOMAIN @ |->
                           IF new.deposits[i] # old.deposits[i]
                           THEN [@[i] EXCEPT !.status = new.deposits[i].status,
                                             !.endDate = new.deposits[i].endDate]
                           ELSE @[i]],
                     ![l.u].capital = IF new.capital # old.capital THEN new.capital ELSE @]
             /\ Goto(p, "ov_find", [l EXCEPT !.user = Some(new), !.gross = GrossProfit(new, now)])
  /\ UNCHANGED <<txs, audits, now, gh>>
  /\ Idle

\* Transaction.find of the approved withdrawals, then the clamp and rounding
OVFind(p) ==
  /\ pc[p] = "ov_find"
  /\ Goto(p, "ov_save2",
          [loc[p] EXCEPT !.calc = AvailableNet(loc[p].gross, WithdrawnFromNet(txs, loc[p].u))])
  /\ UNCHANGED <<users, txs, audits, now, gh>>
  /\ Idle

\* user.netProfit = calcProfit; user.save() sends netProfit when it changed
OVSave2(p) ==
  /\ pc[p] = "ov_save2"
  /\ LET l == loc[p]
     IN users' = [users EXCEPT ![l.u].netProfit =
                     IF l.calc # Val(l.user).netProfit THEN l.calc ELSE @]
  /\ Respond(p, "getOverview", 0, Some(loc[p].start), "ok")
  /\ UNCHANGED <<txs, audits, now, gh>>
  /\ Idle


(***************************************************************************)
(* createWithdrawRequest, createDepositRequest                             *)
(***************************************************************************)
\* requests being created count against the bound on the collection
Creating == {p \in Procs : pc[p] \in {"cw_find", "cw_save", "cw_tx"}}
RoomForTx == Len(txs) + Cardinality(Creating) < Len(SeedTxs) + MaxTx

\* User.findById; computeNetProfit starts with the gross profit at this instant
CWReadOf(p, amounts) ==
  /\ pc[p] = "idle"
  /\ RoomForTx
  /\ \E u \in Requesters, amount \in amounts, method \in BOOLEAN :
       Goto(p, "cw_find",
            [NoLoc EXCEPT !.u = u, !.amt = amount, !.method = method,
                          !.user = Some(users[u]), !.gross = GrossProfit(users[u], now)])
  /\ UNCHANGED <<users, txs, audits, now, gh>>
  /\ Idle

CWRead(p) == CWReadOf(p, WithdrawAmounts)
CWReadAny(p) == CWReadOf(p, RequestAmounts)

CWFind(p) ==
  /\ pc[p] = "cw_find"
  /\ Goto(p, "cw_save",
          [loc[p] EXCEPT !.calc = AvailableNet(loc[p].gross, WithdrawnFromNet(txs, loc[p].u))])
  /\ UNCHANGED <<users, txs, audits, now, gh>>
  /\ Idle

\* validations that leave out the comparison with the available balance
WithdrawRequestUnchecked(amount, available, method) ==
  /\ ~(amount <= 0)
  /\ ~(amount < MinWithdraw)
  /\ method

WithdrawRequestValid(amount, available, method) ==
  /\ ~(amount <= 0)
  /\ ~(amount < MinWithdraw)
  /\ ~(amount > available)
  /\ method

\* user.save() of the recomputed netProfit, then the validations
CWSave(p) ==
  /\ pc[p] = "cw_save"
  /\ LET l == loc[p]
         available == l.calc + Val(l.user).referralEarnings
     IN /\ users' = [users EXCEPT ![l.u].netProfit =
                        IF l.calc # Val(l.user).netProfit THEN l.calc ELSE @]
        /\ IF WithdrawRequestValid(l.amt, available, l.method)
           THEN Goto(p, "cw_tx", l)
           ELSE Respond(p, "createWithdrawRequest", 0, None, "validation")
  /\ UNCHANGED <<txs, audits, now, gh>>
  /\ Idle

\* tx.save() of the pending request with the balance snapshot
CWTx(p) ==
  /\ pc[p] = "cw_tx"
  /\ txs' = Append(txs, NewTx(loc[p].u, "withdraw", loc[p].amt, None, loc[p].calc))
  /\ Respond(p, "createWithdrawRequest", Len(txs) + 1, None, "ok")
  /\ UNCHANGED <<users, audits, now, gh>>
  /\ Idle

createDepositRequest(p) ==
  /\ pc[p] = "idle"
  /\ RoomForTx
  /\ \E u \in Requesters, amount \in DepositAmounts, plan \in Plans, receipt \in BOOLEAN :
       IF amount <= 0 \/ ~receipt
       THEN /\ Respond(p, "createDepositRequest", 0, None, "validation")
            /\ UNCHANGED txs
       ELSE /\ txs' = Append(txs, NewTx(u, "deposit", amount, plan, 0))
            /\ Respond(p, "createDepositRequest", Len(txs) + 1, None, "ok")
  /\ UNCHANGED <<users, audits, now, gh>>
  /\ Idle

(***************************************************************************)
(* getReferrals                                                            *)
(***************************************************************************)
RECURSIVE SnapshotCommission(_, _, _)
\* the commissionEarned of the first i entries of the snapshot that name account k
SnapshotCommission(snapshot, i, k) ==
  IF i = 0 THEN 0
  ELSE SnapshotCommission(snapshot, i - 1, k)
       + (IF snapshot[i].user = k THEN snapshot[i].commissionEarned ELSE 0)

\* User.find({$or: [{referredBy}, {email: {$in: emails of the snapshot}}]}):
\* no document carries referredBy, so the live accounts are those whose email
\* is still the one written into the entry
LiveReferred(snapshot, emailKept) ==
  IF emailKept THEN {snapshot[i].user : i \in 1..Len(snapshot)} ELSE {}

\* the merged rows: a live row starts from the referred account's own
\* referralEarnings, and every snapshot entry adds its commissionEarned to the
\* row of its account
ReferralRows(snapshot, live, store) ==
  [k \in live \cup {snapshot[i].user : i \in 1..Len(snapshot)} |->
     (IF k \in live THEN store[k].referralEarnings ELSE 0)
       + SnapshotCommission(snapshot, Len(snapshot), k)]

RECURSIVE SumRows(_, _)
SumRows(rows, keys) ==
  IF keys = {} THEN 0
  ELSE LET k == CHOOSE x \in keys : TRUE
       IN rows[k] + SumRows(rows, keys \ {k})

\* res.json({ referrals, totalReferralEarnings })
getReferrals(p) ==
  /\ pc[p] = "idle"
  /\ \E r \in Users, emailKept \in BOOLEAN :
       LET snapshot == users[r].referrals
           rows == ReferralRows(snapshot, LiveReferred(snapshot, emailKept), users)
       IN /\ fout' = Some([referrer |-> r, rows |-> rows,
                            totalReferralEarnings |-> SumRows(rows, DOMAIN rows)])
          /\ Respond(p, "getReferrals", 0, None, "ok")
  /\ UNCHANGED <<users, txs, audits, now, gh, fails, fin>>

(***************************************************************************)
(* The system.                                                             *)
(***************************************************************************)
Next ==
  \/ Tick
  \/ \E p \in Procs :
       \/ CWRead(p) \/ CWFind(p) \/ CWSave(p) \/ CWTx(p)
       \/ createDepositRequest(p)
       \/ OVRead(p) \/ OVSave1(p) \/ OVFind(p) \/ OVSave2(p)
       \/ AWBegin(p) \/ AWRetry(p) \/ AWCommit(p) \/ AWFail(p) \/ AWNotify(p)
       \/ rejectWithdrawRead(p) \/ rejectDepositRead(p) \/ RejectSave(p) \/ RejectFinish(p)
       \/ ADReadTx(p) \/ ADReadUser(p) \/ ADSaveUser(p) \/ ADSaveTx(p) \/ ADAudit(p)
       \/ ADFindRef(p) \/ ADSaveRef(p) \/ ADNotify(p) \/ ADFail(p)

Spec == Init /\ [][Next]_vars

\* the settlement of the pending withdrawal while the account looks at its overview
NextWithdraw ==
  \/ TickDay
  \/ \E p \in Procs :
       \/ OVRead(p) \/ OVFind(p) \/ OVSave2(p)
       \/ AWBegin(p) \/ AWRetry(p) \/ AWCommit(p) \/ AWFail(p) \/ AWNotify(p)
       \/ rejectWithdrawRead(p) \/ RejectSave(p) \/ RejectFinish(p)

SpecWithdraw == Init /\ [][NextWithdraw]_vars

\* the settlement of the pending deposit
NextDeposit ==
  \/ TickDay
  \/ \E p \in Procs :
       \/ rejectDepositRead(p) \/ RejectSave(p) \/ RejectFinish(p)
       \/ ADReadTx(p) \/ ADReadUser(p) \/ ADSaveUser(p) \/ ADSaveTx(p) \/ ADAudit(p)
       \/ ADFindRef(p) \/ ADSaveRef(p) \/ ADNotify(p) \/ ADFail(p)

SpecDeposit == Init /\ [][NextDeposit]_vars

(***************************************************************************)
(* Accounts that look at their overview while deposits mature.  Each is a  *)
(* state left by earlier approvals: one deposit of 60 days; two deposits   *)
(* approved a day apart; one deposit of a 30 day plan at 5 percent; one    *)
(* deposit with the capital lowered by the administrator (updateBalances). *)
(***************************************************************************)
PlanRequest == NewTx("u1", "deposit", 100000, Some([ratePercent |-> Some(5), rate |-> None, days |-> Some(30)]), 0)

OverviewCases ==
  LET second == NewDeposit(SeedRequest, 4, 100000, 1440)
      planned == NewDeposit(PlanRequest, 1, 100000, 0)
      account(capital, deps) ==
        [SeedUsers(0)["u1"] EXCEPT !.capital = capital, !.deposits = deps,
                                   !.netProfit = Round2(GrossProfit([deposits |-> deps], 1440)),
                                   !.v = Len(deps)]
  IN { [user |-> account(100000, << SeedDeposit >>), txs |-> SeedTxs],
       [user |-> account(200000, << SeedDeposit, second >>),
        txs |-> [SeedTxs EXCEPT ![4] = ApprovedDepositTx(SeedRequest, 100000)]],
       [user |-> account(100000, << planned >>),
        txs |-> [SeedTxs EXCEPT ![1] = ApprovedDepositTx(PlanRequest, 100000)]],
       [user |-> account(50000, << SeedDeposit >>), txs |-> SeedTxs] }

\* the referrer, the audit trail and the history after that many approvals
InitOverview ==
  /\ \E c \in OverviewCases :
       LET n == Len(c.user.deposits)
       IN /\ users = [SeedUsers(0) EXCEPT
                        !["u1"] = c.user,
                        !["u2"].referralEarnings = n * @,
                        !["u2"].referrals[1].capital = n * @,
                        !["u2"].referrals[1].commissionEarned = n * @]
          /\ txs = c.txs
          /\ audits = [SeedAudits EXCEPT ![<<"approve-deposit", 4>>] = n - 1]
          /\ gh = [SeedHist EXCEPT ![4] = IF n = 2 THEN SeedHist[1] ELSE @]
  /\ now = 1440
  /\ pc = [p \in Procs |-> "idle"]
  /\ loc = [p \in Procs |-> NoLoc]
  /\ resp = NoResp
  /\ fails = 0
  /\ fin = NoInput
  /\ fout = NoInput

Overview(p) == OVRead(p) \/ OVSave1(p) \/ OVFind(p) \/ OVSave2(p)

\* concurrent overviews of the account
NextOverview == Tick \/ \E p \in Procs : Overview(p)

SpecOverview == InitOverview /\ [][NextOverview]_vars

\* overviews of the account one after the other
NextOverviewSerial == Tick \/ Overview("p1")

SpecOverviewSerial == InitOverview /\ [][NextOverviewSerial]_vars

\* the two operations that persist a recomputed profit, one request at a time
WithdrawRequest(p) == CWRead(p) \/ CWFind(p) \/ CWSave(p) \/ CWTx(p)

NextRecalc == Tick \/ Overview("p1") \/ WithdrawRequest("p1")

SpecRecalc == InitOverview /\ [][NextRecalc]_vars

\* withdrawal requests of any amount, one request at a time
createWithdrawRequest(p) == CWReadAny(p) \/ CWFind(p) \/ CWSave(p) \/ CWTx(p)

NextRequest == TickDay \/ createWithdrawRequest("p1")

SpecRequest == Init /\ [][NextRequest]_vars

(***************************************************************************)
(* Concurrent approvals of two pending withdrawals of one account, of 5.00 *)
(* and of 3.00, both requested at a profit of 6.00.                        *)
(***************************************************************************)
InitTwoWithdrawals ==
  /\ \E c \in StartCommissions : users = SeedUsers(c)
  /\ txs = Append(SeedTxs, NewTx("u1", "withdraw", 3000, None, SeedNet))
  /\ audits = SeedAudits
  /\ now = 1440
  /\ pc = [p \in Procs |-> "idle"]
  /\ loc = [p \in Procs |-> NoLoc]
  /\ resp = NoResp
  /\ gh = SeedHist
  /\ fails = 0
  /\ fin = NoInput
  /\ fout = NoInput

NextTwoWithdrawals ==
  \E p \in Procs : AWBegin(p) \/ AWRetry(p) \/ AWCommit(p) \/ AWFail(p) \/ AWNotify(p)

SpecTwoWithdrawals == InitTwoWithdrawals /\ [][NextTwoWithdrawals]_vars

\* approvals of the pending withdrawal for any approvedAmount, one request at
\* a time, while the account looks at its overview
NextApproveWithdraw ==
  \/ TickDay
  \/ OVRead("p1") \/ OVFind("p1") \/ OVSave2("p1")
  \/ AWBeginAny("p1") \/ AWCommit("p1") \/ AWFail("p1") \/ AWNotify("p1")

SpecApproveWithdraw == Init /\ [][NextApproveWithdraw]_vars

(***************************************************************************)
(* An account with 20.00 of commission that asks for withdrawals, has them *)
(* approved and looks at its overview, one request at a time.              *)
(***************************************************************************)
\* the commission credited to the account before (mills)
EarlierCommission == 20000

InitEarned ==
  /\ Init
  /\ users = SeedUsers(EarlierCommission)

approveWithdraw(p) == AWBegin(p) \/ AWCommit(p) \/ AWFail(p) \/ AWNotify(p)

\* approveDeposit for the requested amount, with no database failure
approveDepositAsRequested(p) ==
  \/ ADReadTx(p) \/ ADReadUser(p) \/ ADSaveUser(p) \/ ADSaveTx(p) \/ ADAudit(p)
  \/ ADFindRef(p) \/ ADSaveRef(p) \/ ADNotify(p)

NextEarned ==
  \/ Tick
  \/ WithdrawRequest("p1")
  \/ Overview("p1")
  \/ approveWithdraw("p1")
  \/ approveDepositAsRequested("p1")

SpecEarned == InitEarned /\ [][NextEarned]_vars

\* the referral listing between approvals of the deposits of the referred account
NextListing == TickDay \/ approveDepositAsRequested("p1") \/ getReferrals("p1")

SpecListing == Init /\ [][NextListing]_vars

(***************************************************************************)
(* Approvals of one pending deposit request, one at a time.  The request   *)
(* is of the referred account u1 or of u2, whom nobody referred, with or   *)
(* without a plan; the administrator may send any approvedAmount.          *)
(***************************************************************************)
ApproveRequests ==
  {NewTx(u, "deposit", a, plan, 0) : u \in Users, a \in ApproveAmounts, plan \in Plans}

InitApprove ==
  /\ users = SeedUsers(0)
  /\ \E req \in ApproveRequests : txs = [SeedTxs EXCEPT ![4] = req]
  /\ audits = SeedAudits
  /\ now = 1440
  /\ pc = [p \in Procs |-> "idle"]
  /\ loc = [p \in Procs |-> NoLoc]
  /\ resp = NoResp
  /\ gh = SeedHist
  /\ fails = 0
  /\ fin = NoInput
  /\ fout = NoInput

approveDeposit(p) ==
  \/ ADReadTxAny(p) \/ ADReadUser(p) \/ ADSaveUser(p) \/ ADSaveTx(p) \/ ADAudit(p)
  \/ ADFindRef(p) \/ ADSaveRef(p) \/ ADNotify(p) \/ ADFail(p)

NextApprove == TickDay \/ approveDeposit("p1")

SpecApprove == InitApprove /\ [][NextApprove]_vars

(***************************************************************************)
(* Two pending deposit requests of the referred account u1, of 100 and of  *)
(* 50, approved by concurrent requests of the administrators.              *)
(***************************************************************************)
InitReferral ==
  /\ users = SeedUsers(0)
  /\ txs = Append(SeedTxs, NewTx("u1", "deposit", 50000, None, 0))
  /\ audits = SeedAudits
  /\ now = 1440
  /\ pc = [p \in Procs |-> "idle"]
  /\ loc = [p \in Procs |-> NoLoc]
  /\ resp = NoResp
  /\ gh = SeedHist
  /\ fails = 0
  /\ fin = NoInput
  /\ fout = NoInput

NextReferral ==
  \E p \in Procs :
    \/ ADReadTx(p) \/ ADReadUser(p) \/ ADSaveUser(p) \/ ADSaveTx(p) \/ ADAudit(p)
    \/ ADFindRef(p) \/ ADSaveRef(p) \/ ADNotify(p)

SpecReferral == InitReferral /\ [][NextReferral]_vars

\* the settlement handlers, one request at a time
Serial(p) ==
  \/ AWBegin(p) \/ AWCommit(p) \/ AWFail(p) \/ AWNotify(p)
  \/ rejectWithdrawRead(p) \/ rejectDepositRead(p) \/ RejectSave(p) \/ RejectFinish(p)
  \/ ADReadTx(p) \/ ADReadUser(p) \/ ADSaveUser(p) \/ ADSaveTx(p) \/ ADAudit(p)
  \/ ADFindRef(p) \/ ADSaveRef(p) \/ ADNotify(p) \/ ADFail(p)

NextSerial == TickDay \/ Serial("p1")

SpecSerial == Init /\ [][NextSerial]_vars

\* the rejection of the pending requests
NextReject ==
  \/ TickDay
  \/ \E p \in Procs :
       \/ rejectWithdrawRead(p) \/ rejectDepositRead(p) \/ RejectSave(p) \/ RejectFinish(p)

SpecReject == Init /\ [][NextReject]_vars

(***************************************************************************)
(* deductFromUser applied on its own to balances and an amount.            *)
(***************************************************************************)
InitDeduct ==
  /\ users = SeedUsers(0)
  /\ txs = SeedTxs
  /\ audits = SeedAudits
  /\ now = 1440
  /\ pc = [p \in Procs |-> "idle"]
  /\ loc = [p \in Procs |-> NoLoc]
  /\ resp = NoResp
  /\ gh = SeedHist
  /\ fails = 0
  /\ \E P \in DeductProfits, C \in DeductCommissions, A \in DeductAmounts :
       fin = Some([net |-> P, ref |-> C, amount |-> A])
  /\ fout = NoInput

DeductApply ==
  /\ IsSome(fin)
  /\ fout = NoInput
  /\ fout' = Some(deductFromUser(Val(fin).net, Val(fin).ref, Val(fin).amount))
  /\ UNCHANGED <<users, txs, audits, now, pc, loc, resp, gh, fails, fin>>

SpecDeduct == InitDeduct /\ [][DeductApply]_vars

(***************************************************************************)
(* Properties.                                                             *)
(***************************************************************************)
Terminal(tx) == tx.status \in {"approved", "rejected"}

\* Deposit records created on behalf of transaction t
DepositsFor(t) ==
  Cardinality(UNION {{<<u, i>> : i \in {j \in DOMAIN users[u].deposits :
                                           users[u].deposits[j].srcTx = t}} : u \in Users})

Available(user) == user.netProfit + user.referralEarnings

\* C1: of two concurrent approveWithdraw calls on the same pending withdrawal
\* at most one commits a deduction and succeeds; the call that finds the
\* withdrawal already deducted does not commit, and the re-run of its callback
\* answers Invalid-State without touching the account.
C1_SingleApproval ==
  [][ /\ \A t \in 1..Len(txs) :
           txs[t].type = "withdraw" =>
             (gh'[t].deducted <= 1 /\ gh'[t].okApprove <= gh'[t].deducted)
      /\ \A p \in Procs :
           /\ (pc[p] = "aw_commit" /\ gh[loc[p].t].deducted = 1 /\ pc'[p] # pc[p])
                => (pc'[p] # "aw_notify" /\ users' = users /\ txs' = txs)
           /\ (pc[p] = "aw_retry" /\ gh[loc[p].t].deducted = 1 /\ pc'[p] # pc[p])
                => /\ resp'.op = "approveWithdraw"
                   /\ resp'.t = loc[p].t
                   /\ resp'.code = "invalid_state"
                   /\ users' = users ]_vars

\* one call succeeded, the concurrent one was re-run and answered Invalid-State
C1_Witness ==
  /\ resp.op = "approveWithdraw"
  /\ resp.from = "aw_retry"
  /\ resp.code = "invalid_state"
  /\ gh[resp.t].okApprove = 1
  /\ gh[resp.t].deducted = 1
  /\ txs[resp.t].status = "approved"

\* C2: two concurrent approveDeposit calls on the same pending deposit (no
\* database failure) yield at most one success, one Deposit record for the
\* transaction and one commission credit to the referrer.
C2_SingleDeposit ==
  fails = 0 =>
    \A t \in 1..Len(txs) :
      txs[t].type = "deposit" =>
        /\ gh[t].okApprove <= 1
        /\ DepositsFor(t) <= 1
        /\ gh[t].applied <= 1
        /\ gh[t].credited <= 1

\* C3: of an approve and a reject on the same pending transaction at most one
\* succeeds, and a transaction in status rejected has had no balance, Deposit
\* record or referral entry changed on its behalf.
C3_ApproveXorReject ==
  \A t \in 1..Len(txs) :
    /\ gh[t].okApprove + gh[t].okReject <= 1
    /\ txs[t].status = "rejected" =>
         (gh[t].deducted = 0 /\ gh[t].applied = 0 /\ gh[t].credited = 0)

\* C4: a transaction that is approved or rejected never changes again, and a
\* settlement call that starts on it answers Invalid-State and changes neither
\* the transactions, the accounts nor the audit log.
C4_TerminalIsFinal ==
  [][ /\ \A t \in 1..Len(txs) : Terminal(txs[t]) => txs'[t] = txs[t]
      /\ ( /\ resp'.op \in {"approveWithdraw", "rejectWithdraw", "approveDeposit", "rejectDeposit"}
           /\ resp'.from = "idle"
           /\ Exists(resp'.t)
           /\ Terminal(txs[resp'.t])
           /\ (txs[resp'.t].type = "withdraw") = (resp'.op \in {"approveWithdraw", "rejectWithdraw"}) )
         => (resp'.code = "invalid_state" /\ UNCHANGED <<users, txs, audits>>) ]_vars

\* C5: in every reachable state a withdrawal is approved exactly when the
\* account was deducted for it and an approve-withdraw audit entry exists.
C5_WithdrawAllOrNothing ==
  \A t \in 1..Len(txs) :
    txs[t].type = "withdraw" =>
      ( txs[t].status = "approved"
          <=> (gh[t].deducted >= 1 /\ audits[<<"approve-withdraw", t>>] >= 1) )

\* C6: whenever no handler is running, no pending deposit transaction has a
\* Deposit record or a principal increase made for it, and every approved
\* deposit transaction has its approve-deposit audit entry.
C6_DepositAllOrNothing ==
  (\A p \in Procs : pc[p] = "idle") =>
    \A t \in 1..Len(txs) :
      txs[t].type = "deposit" =>
        /\ txs[t].status = "pending" => (DepositsFor(t) = 0 /\ gh[t].applied = 0)
        /\ txs[t].status = "approved" => audits[<<"approve-deposit", t>>] >= 1

\* netProfit values that a serial order of the overview of handler p and the
\* withdrawals settled since it read the account would leave: the settlement
\* first (the overview recomputes from the settled history), or the overview
\* first (the settlement deducts from the overview's value)
SerialNetProfit(p) ==
  LET l == loc[p]
  IN {AvailableNet(l.gross, WithdrawnFromNet(txs, l.u))}
     \cup {deductFromUser(l.calc, users[l.u].referralEarnings,
                          Val(txs[t].approvedAmount)).netAfter :
             t \in {k \in 1..Len(txs) : /\ txs[k].user = l.u
                                        /\ txs[k].type = "withdraw"
                                        /\ gh[k].deducted >= 1
                                        /\ IsSome(txs[k].approvedAmount)}}

\* C7: when a settlement on the account committed while an overview was
\* between its read and its write, the netProfit the overview leaves is one
\* that a serial order of the two leaves.
C7_OverviewSerializable ==
  [][ \A p \in Procs :
        (pc[p] = "ov_save2" /\ pc'[p] = "idle" /\ SettledCount(loc[p].u) # loc[p].seen)
          => users'[loc[p].u].netProfit \in SerialNetProfit(p) ]_vars

\* C8: approveWithdraw answers Validation whenever the amount to approve (the
\* approvedAmount of the request, else the transaction amount) exceeds
\* netProfit + referralEarnings of the account, leaving transaction, accounts
\* and audit log unchanged; it goes on to deduct only an amount within them.
C8_ValidationRejects ==
  [][ /\ ( /\ resp'.op = "approveWithdraw"
           /\ resp'.from \in {"idle", "aw_retry"}
           /\ Exists(resp'.t)
           /\ txs[resp'.t].type = "withdraw"
           /\ txs[resp'.t].status = "pending"
           /\ OrElse(resp'.arg, txs[resp'.t].amount) > Available(users[txs[resp'.t].user]) )
         => /\ resp'.code = "validation"
            /\ txs'[resp'.t].status = "pending"
            /\ UNCHANGED <<users, txs, audits>>
      /\ (resp'.op = "approveWithdraw" /\ resp'.code = "validation")
         => /\ Exists(resp'.t)
            /\ OrElse(resp'.arg, txs[resp'.t].amount) > Available(users[txs[resp'.t].user])
            /\ UNCHANGED <<users, txs, audits>>
      /\ \A p \in Procs :
           /\ (pc[p] \in {"idle", "aw_retry"} /\ pc'[p] = "aw_commit")
                => /\ loc'[p].amt = OrElse(loc'[p].ov, txs[loc'[p].t].amount)
                   /\ loc'[p].amt <= Available(users[loc'[p].u])
           /\ (pc[p] = "aw_commit" /\ pc'[p] = "aw_notify")
                => loc[p].amt <= Available(users[loc[p].u]) ]_vars

\* an approval above the available balance was answered Validation
C8_Witness ==
  /\ resp.op = "approveWithdraw"
  /\ resp.code = "validation"
  /\ IsSome(resp.arg)
  /\ Val(resp.arg) > Available(users[txs[resp.t].user])
  /\ txs[resp.t].status = "pending"
  /\ gh[resp.t].deducted = 0

\* C9: the netProfit that approveWithdraw validates and deducts against equals
\* what computeNetProfit returns at that instant for the account after the
\* finalization of its matured deposits.
C9_FreshBalance ==
  [][ \A p \in Procs :
        (pc[p] \in {"idle", "aw_retry"} /\ pc'[p] = "aw_commit")
          => Val(loc'[p].user).netProfit
               = computeNetProfit(FinalizeUser(users[loc'[p].u], now), loc'[p].u, now, txs) ]_vars

\* what deductFromUser did to the balances it was applied to
DeductCase ==
  [P |-> Val(fin).net, C |-> Val(fin).ref, A |-> Val(fin).amount,
   fromProfit |-> Val(fin).net - Val(fout).netAfter,
   fromCommission |-> Val(fin).ref - Val(fout).refAfter,
   shortfall |-> Val(fout).shortfall]

Cascade(d) ==
  /\ d.fromProfit = Min(d.P, d.A)
  /\ d.fromCommission = Min(d.C, d.A - d.fromProfit)
  /\ (d.fromCommission # 0 => d.fromProfit = d.P)
  /\ d.fromProfit + d.fromCommission = d.A - d.shortfall

\* C10 as stated: for every amount A the deduction takes min(P, A) from the
\* profit, min(C, A - fromProfit) from the commission, and P + C decreases by
\* exactly A minus the shortfall.
C10_CascadeAnyAmount == IsSome(fout) => Cascade(DeductCase)

\* C10: for an amount A of whole cents the deduction takes min(P, A) from the
\* profit first and min(C, A - fromProfit) from the commission, the commission
\* is touched only when the profit is exhausted, and P + C decreases by exactly
\* A minus the shortfall; P = 30, C = 20, A = 40 leaves 0, 10 and shortfall 0.
C10_CascadeWholeCents ==
  (IsSome(fout) /\ Val(fin).amount % Cent = 0) =>
    /\ Cascade(DeductCase)
    /\ (Val(fin).net = 30000 /\ Val(fin).ref = 20000 /\ Val(fin).amount = 40000)
         => (Val(fout).netAfter = 0 /\ Val(fout).refAfter = 10000 /\ Val(fout).shortfall = 0)

\* the deduction of 40 from profit 30 and commission 20 was made
C10_Witness ==
  /\ IsSome(fout)
  /\ Val(fin) = [net |-> 30000, ref |-> 20000, amount |-> 40000]
  /\ Val(fout).netAfter = 0
  /\ Val(fout).refAfter = 10000

\* the part of an amount that the stored balances of an account cannot cover
ShortfallOf(user, amt) == deductFromUser(user.netProfit, user.referralEarnings, amt).shortfall

C12_RejectFrame ==
  [][ \A p \in Procs :
        pc[p] \in {"rj_save", "rj_audit"} /\ pc'[p] # pc[p]
          => LET t == loc[p].t
             IN /\ Val(loc[p].tx).status = "pending"
                /\ users' = users
                /\ \A k \in 1..Len(txs) : k # t => txs'[k] = txs[k]
                /\ Len(txs') = Len(txs)
                /\ [txs'[t] EXCEPT !.status = txs[t].status, !.remark = txs[t].remark] = txs[t]
                /\ txs'[t].status \in {txs[t].status, "rejected"}
                /\ pc[p] = "rj_save" => (txs'[t].status = "rejected" /\ audits' = audits)
                /\ \A k \in DOMAIN audits :
                     audits'[k] # audits[k]
                       => /\ k \in {<<"reject-withdraw", t>>, <<"reject-deposit", t>>}
                          /\ audits'[k] = audits[k] + 1 ]_vars

\* the pending withdrawal and the pending deposit were both rejected
C12_Witness ==
  /\ txs[3].type = "withdraw" /\ txs[3].status = "rejected" /\ gh[3].okReject = 1
  /\ txs[4].type = "deposit" /\ txs[4].status = "rejected" /\ gh[4].okReject = 1
  /\ audits[<<"reject-withdraw", 3>>] = 1
  /\ audits[<<"reject-deposit", 4>>] = 1
  /\ \E c \in StartCommissions : users = SeedUsers(c)

SettlementOps == {"approveWithdraw", "rejectWithdraw", "approveDeposit", "rejectDeposit"}

\* the kind of transaction an operation settles
KindOf(op) == IF op \in {"approveWithdraw", "rejectWithdraw"} THEN "withdraw" ELSE "deposit"

\* C13: approveWithdraw, rejectWithdraw, approveDeposit and rejectDeposit
\* answer Not-Found, changing nothing, when no transaction has the id or the
\* transaction is of the other kind; each goes on only with a transaction of
\* its own kind.
C13_NotFound ==
  [][ /\ ( /\ resp'.op \in SettlementOps
           /\ resp'.from = "idle"
           /\ (~Exists(resp'.t) \/ txs[resp'.t].type # KindOf(resp'.op)) )
         => (resp'.code = "not_found" /\ UNCHANGED <<users, txs, audits, gh>>)
      /\ (resp'.op \in SettlementOps /\ resp'.code = "not_found")
         => /\ ~Exists(resp'.t) \/ txs[resp'.t].type # KindOf(resp'.op)
            /\ UNCHANGED <<users, txs, audits, gh>>
      /\ \A p \in Procs :
           /\ (pc[p] = "idle" /\ pc'[p] = "aw_commit")
                => (Exists(loc'[p].t) /\ txs[loc'[p].t].type = "withdraw")
           /\ (pc[p] = "idle" /\ pc'[p] = "ad_user")
                => (Exists(loc'[p].t) /\ txs[loc'[p].t].type = "deposit")
           /\ (pc[p] = "idle" /\ pc'[p] = "rj_save")
                => (Exists(loc'[p].t) /\ txs[loc'[p].t].type = KindOf(loc'[p].op)) ]_vars

\* approveWithdraw was called with the id of the pending deposit
C13_Witness ==
  /\ resp.op = "approveWithdraw"
  /\ resp.code = "not_found"
  /\ Exists(resp.t)
  /\ txs[resp.t].type = "deposit"
  /\ txs[resp.t].status = "pending"

\* G: the accrued profit of the active deposits of the account
RECURSIVE AccruedActive(_, _, _)
AccruedActive(deps, n, asOf) ==
  IF n = 0 THEN 0
  ELSE AccruedActive(deps, n - 1, asOf)
       + (IF deps[n].status = "active" THEN profitForDeposit(deps[n], asOf) ELSE 0)

\* the amount one approved withdrawal took from the profit: the recorded
\* breakdown, else min(profit snapshot at request time, approved amount)
TakenFromProfit(tx) ==
  IF tx.fromNet # None THEN tx.fromNet[1]
  ELSE LET approved == IF tx.approvedAmount # None THEN tx.approvedAmount[1] ELSE tx.amount
       IN IF tx.snapNet <= approved THEN tx.snapNet ELSE approved

\* W: summed over the approved withdrawals of the account
RECURSIVE TakenTotal(_, _, _)
TakenTotal(store, n, u) ==
  IF n = 0 THEN 0
  ELSE TakenTotal(store, n - 1, u)
       + (IF store[n].user = u /\ store[n].type = "withdraw" /\ store[n].status = "approved"
          THEN TakenFromProfit(store[n]) ELSE 0)

NetG == AccruedActive(Val(fin).user.deposits, Len(Val(fin).user.deposits), Val(fin).asOf)
NetW == TakenTotal(Val(fin).store, Len(Val(fin).store), "u1")

\* C14 as stated: computeNetProfit returns max(0, G - W).
C14_NetExact == IsSome(fout) => Val(fout) = Max(0, NetG - NetW)

\* C14: computeNetProfit returns max(0, G - W) rounded to 2 decimals, G the
\* accrued profit of the active deposits and W the sum over the approved
\* withdrawals of the account of the recorded amount taken from the profit,
\* else of min(profit snapshot at request time, approved amount).
C14_NetRounded == IsSome(fout) => Val(fout) = Round2(Max(0, NetG - NetW))

\* one active deposit, one withdrawal with a recorded breakdown and one whose
\* share is inferred from the snapshot
C14_Witness ==
  /\ IsSome(fout)
  /\ NetG = 6000
  /\ Len(Val(fin).store) = 2
  /\ Val(fin).store[1].fromNet = Some(3000)
  /\ Val(fin).store[2].fromNet = None
  /\ Val(fin).store[2].snapNet = 1000
  /\ Val(fout) = 2000


\* the steps of an overview between its read and its response
InOverview(p) == pc[p] \in {"ov_save1", "ov_find", "ov_save2"}

\* C15: an overview taken right after a completed overview, at the same
\* instant and with nothing in between, finds no deposit to finalize,
\* computes the availableProfit the first one left and writes nothing.
C15_OverviewIdempotent ==
  [][\A p \in Procs :
       (InOverview(p) /\ loc[p].again /\ loc[p].start = now)
         => /\ pc[p] # "ov_save1"
            /\ users' = users
            /\ (pc[p] = "ov_save2" => loc[p].calc = users[loc[p].u].netProfit)]_vars

\* a second overview about to respond after the first one completed a deposit
C15_Witness ==
  \E p \in Procs :
    /\ pc[p] = "ov_save2" /\ loc[p].again /\ loc[p].start = now
    /\ \E i \in DOMAIN users[loc[p].u].deposits :
         /\ users[loc[p].u].deposits[i].status = "completed"
         /\ users[loc[p].u].deposits[i].endDate = Some(now)

\* the account one overview leaves: the maturity loop at the instant of its
\* read, the profit computed at the instant of its computeNetProfit
SingleOverview(user, u, atRead, atCompute) ==
  LET done == FinalizeUser(user, atRead)
  IN [done EXCEPT !.netProfit = computeNetProfit(done, u, atCompute, txs)]

\* the accounts that overviews taken one at a time up to this instant leave
AfterOneOverview(user, u) ==
  {user} \cup {SingleOverview(user, u, t1, t2) :
                 t1 \in {t \in Instants : t <= now}, t2 \in {t \in Instants : t <= now}}

\* C16: once concurrent overviews have all responded, the persisted account
\* (capital, netProfit, deposits) is one that a single execution leaves: each
\* matured deposit completed and subtracted once, the profit that of the
\* finalized deposits.
C16_ConcurrentOverviews ==
  (\A p \in Procs : pc[p] = "idle")
    => \E c \in OverviewCases :
         /\ c.txs = txs
         /\ \A i \in DOMAIN c.user.deposits : c.user.deposits[i].srcTx = users["u1"].deposits[i].srcTx
         /\ users["u1"] \in AfterOneOverview(c.user, "u1")


\* the deposit has run its 60 days at that instant
Due(dep, asOf) == asOf >= dep.startDate + 60 * MinutesPerDay

RECURSIVE SumDue(_, _, _)
\* the amounts of the active deposits that are due
SumDue(deps, n, asOf) ==
  IF n = 0 THEN 0
  ELSE SumDue(deps, n - 1, asOf)
       + (IF deps[n].status = "active" /\ Due(deps[n], asOf) THEN deps[n].amount ELSE 0)

\* C17: an overview taken at an instant leaves a deposit completed exactly
\* when it was completed already or its 60 days are over at that instant; a
\* deposit that it completes gets endDate = startDate + 60 days and its amount
\* taken off the capital, which stops at zero; the other deposits and, without
\* a due deposit, the capital stay as they were.
C17_MaturityRule ==
  [][\A p \in Procs :
       LET u == loc[p].u
           old == users[u]
           new == users'[u]
       IN /\ (pc[p] = "idle" /\ pc'[p] = "ov_find")
               => \A i \in DOMAIN old.deposits :
                    ~(old.deposits[i].status = "active" /\ Due(old.deposits[i], now))
          /\ (pc[p] = "ov_save1" /\ pc'[p] = "ov_find")
               => /\ DOMAIN new.deposits = DOMAIN old.deposits
                  /\ \A i \in DOMAIN old.deposits :
                       LET d == old.deposits[i]
                           e == new.deposits[i]
                       IN /\ e.status = "completed"
                               <=> (d.status = "completed" \/ Due(d, loc[p].start))
                          /\ IF d.status = "active" /\ e.status = "completed"
                             THEN e = [d EXCEPT !.status = "completed",
                                                !.endDate = Some(d.startDate + 60 * MinutesPerDay)]
                             ELSE e = d
                  /\ new.capital =
                       Max(0, old.capital - SumDue(old.deposits, Len(old.deposits), loc[p].start))
          /\ (InOverview(p) /\ pc[p] # "ov_save1")
               => new.deposits = old.deposits /\ new.capital = old.capital]_vars

\* an overview has just completed one deposit of a 30 day plan, or one of two
\* deposits, or one larger than the capital
C17_Witness ==
  \E p \in Procs :
    /\ pc[p] = "ov_find" /\ resp = NoResp
    /\ LET d == users[loc[p].u].deposits
       IN /\ d[1].status = "completed" /\ d[1].endDate = Some(loc[p].start)
          /\ Len(d) = 2 /\ d[2].status = "active"
          /\ users[loc[p].u].capital = d[2].amount

RECURSIVE SumAmounts(_, _)
\* the amounts of the deposits at those positions
SumAmounts(deps, S) ==
  IF S = {} THEN 0
  ELSE LET i == CHOOSE k \in S : TRUE
       IN deps[i].amount + SumAmounts(deps, S \ {i})

\* C18: a completed deposit stays as it is (status, endDate) through every
\* later overview, and the capital goes down only in a step that completes
\* active deposits, by no more than their amounts.
C18_CompletedOnce ==
  [][\A u \in Users :
       /\ \A i \in DOMAIN users[u].deposits :
            users[u].deposits[i].status = "completed"
              => /\ i \in DOMAIN users'[u].deposits
                 /\ users'[u].deposits[i] = users[u].deposits[i]
       /\ users'[u].capital < users[u].capital
            => LET due == {i \in DOMAIN users[u].deposits :
                             /\ users[u].deposits[i].status = "active"
                             /\ users'[u].deposits[i].status = "completed"}
               IN /\ due # {}
                  /\ users[u].capital - users'[u].capital <= SumAmounts(users[u].deposits, due)]_vars

\* an overview runs its maturity loop on an account holding a completed deposit
C18_Witness ==
  \E p \in Procs :
    /\ pc[p] = "ov_save1"
    /\ \E i \in DOMAIN users[loc[p].u].deposits :
         users[loc[p].u].deposits[i].status = "completed"

\* no active deposit of the document is past its 60 days at that instant
NoneDue(user, asOf) ==
  \A i \in DOMAIN user.deposits : ~(user.deposits[i].status = "active" /\ Due(user.deposits[i], asOf))

\* C19: whenever getOverview or createWithdrawRequest starts the profit
\* recomputation it persists, the maturity finalization of that operation has
\* run and is persisted: the document it computes on, and the stored account,
\* hold no active deposit that is due at the instant of the operation.
C19_FinalizedBeforeRecalc ==
  [][\A p \in Procs :
       /\ (pc[p] # "ov_find" /\ pc'[p] = "ov_find")
            => /\ NoneDue(Val(loc'[p].user), loc'[p].start)
               /\ NoneDue(users'[loc'[p].u], loc'[p].start)
       /\ (pc[p] = "idle" /\ pc'[p] = "cw_find")
            => /\ NoneDue(Val(loc'[p].user), now)
               /\ NoneDue(users'[loc'[p].u], now)]_vars

\* C20: every deposit with an endDate has endDate = startDate + its days, as
\* approveDeposit writes it and as the maturity finalization leaves it,
\* whatever days the plan supplied.
C20_EndDateIsWindow ==
  \A u \in Users : \A i \in DOMAIN users[u].deposits :
    LET d == users[u].deposits[i]
    IN IsSome(d.endDate) => Val(d.endDate) = d.startDate + d.days * MinutesPerDay

\* C21: whatever amounts are requested and whatever approvedAmount the
\* administrator sends, the capital, the netProfit and the referralEarnings
\* of every account are never negative.
C21_BalancesNonNegative ==
  \A u \in Users :
    /\ users[u].capital >= 0
    /\ users[u].netProfit >= 0
    /\ users[u].referralEarnings >= 0

\* the amount an approval settles: the approvedAmount of the body, else the requested amount
ApprovedAmountOf(p) == OrElse(loc[p].ov, Val(loc[p].tx).amount)

\* C22: an approveDeposit that has done its writes on a pending deposit has
\* appended exactly one deposit to the account, active, of the approved amount
\* and starting at the instant of the approval; the capital is higher by that
\* amount, the transaction is approved and the deposits the account had are
\* as they were.
C22_ApprovalAppendsOne ==
  \A p \in Procs :
    pc[p] = "ad_notify" =>
      LET before == Val(loc[p].user)
          after == users[loc[p].u]
          n == Len(before.deposits)
      IN /\ Val(loc[p].tx).status = "pending"
         /\ Len(after.deposits) = n + 1
         /\ \A i \in 1..n : after.deposits[i] = before.deposits[i]
         /\ after.deposits[n + 1].status = "active"
         /\ after.deposits[n + 1].amount = ApprovedAmountOf(p)
         /\ after.deposits[n + 1].startDate = loc[p].start
         /\ loc[p].start <= now
         /\ after.capital = before.capital + ApprovedAmountOf(p)
         /\ txs[loc[p].t].status = "approved"

\* an approval of half the requested amount, given on Wednesday for a request
\* made before Tuesday, has done its writes
C22_Witness ==
  \E p \in Procs :
    /\ pc[p] = "ad_notify"
    /\ loc[p].ov = Some(50000) /\ Val(loc[p].tx).amount = 100000
    /\ loc[p].start = 2880
    /\ users[loc[p].u].deposits[Len(users[loc[p].u].deposits)].startDate = 2880

\* the first of the given optional values that is present, else the default
FirstOf(options, default) ==
  LET present == {i \in DOMAIN options : IsSome(options[i])}
  IN IF present = {} THEN default
     ELSE Val(options[CHOOSE i \in present : \A j \in present : i <= j])

\* the optional field of the plan of a transaction
PlanField(tx, field) == IF IsSome(tx.plan) THEN Val(tx.plan)[field] ELSE None

ReferrersOf(u) ==
  {r \in Users : \E i \in DOMAIN users[r].referrals : users[r].referrals[i].user = u}

\* the steps of an approveDeposit between its first read and its response
InApproval(p) ==
  pc[p] \in {"ad_user", "ad_saveuser", "ad_savetx", "ad_audit", "ad_findref", "ad_saveref", "ad_notify"}

\* what an approval does to the accounts other than the depositor's, the
\* commission it credits being related to the approved amount A by Exact(c, A)
ReferralCredit(Exact(_, _)) ==
  \A p \in Procs :
    LET u == loc[p].u
        t == loc[p].t
    IN /\ (pc[p] = "ad_saveref" /\ pc'[p] = "ad_notify")
            => \E r \in ReferrersOf(u) :
                 /\ Exact(users'[r].referralEarnings - users[r].referralEarnings, ApprovedAmountOf(p))
                 /\ \A a \in Users \ {r} : users'[a] = users[a]
                 /\ gh[t].credited = 0
       /\ (InApproval(p) /\ ~(pc[p] = "ad_saveref" /\ pc'[p] = "ad_notify"))
            => \A a \in Users \ {u} : users'[a] = users[a]
       /\ (pc[p] = "ad_findref" /\ pc'[p] = "ad_notify") => ReferrersOf(u) = {}
       /\ (pc[p] = "ad_notify" /\ pc'[p] = "idle" /\ ReferrersOf(u) # {}) => gh[t].credited = 1

\* C24 as stated: the referrer of the depositor is credited exactly 5 percent
\* of the approved amount, once; without a referrer no other account changes.
C24_CommissionExact ==
  [][ReferralCredit(LAMBDA c, A : 100 * c = 5 * A)]_vars

\* C24, amended: the credit is 5 percent of the approved amount rounded to the
\* nearest cent, once; without a referrer no other account changes.
C24_CommissionRounded ==
  [][ReferralCredit(LAMBDA c, A : /\ c % Cent = 0
                                  /\ 100 * c - 5 * A <= 500
                                  /\ 5 * A - 100 * c <= 500)]_vars

\* the referrer, who held 5.00, has been credited for an approval of 100.01
C24_Witness ==
  \E p \in Procs :
    /\ pc[p] = "ad_notify"
    /\ ReferrersOf(loc[p].u) = {"u2"}
    /\ ApprovedAmountOf(p) = 100010
    /\ gh[loc[p].t].credited = 1
    /\ users["u2"].referralEarnings = 10000

\* the entries a referrer holds for a referred account
EntriesFor(r, u) == {i \in DOMAIN users[r].referrals : users[r].referrals[i].user = u}

RECURSIVE CreditedUpTo(_, _)
\* the commissions credited on behalf of the deposits 1..n of account u: 5
\* percent, to the cent, of each approved amount, once per save of the referrer
CreditedUpTo(u, n) ==
  IF n = 0 THEN 0
  ELSE CreditedUpTo(u, n - 1)
       + (IF txs[n].user = u /\ txs[n].type = "deposit"
          THEN gh[n].credited * Round2((5 * OrElse(txs[n].approvedAmount, txs[n].amount)) \div 100)
          ELSE 0)

\* C25: a referrer holds at most one entry per referred account, and, each
\* deposit being approved at most once, the commissionEarned of that entry is
\* the sum of the commissions credited for the deposits of that account,
\* also when the approvals run concurrently.
C25_OneEntryHoldsAll ==
  \A r \in Users, u \in Users :
    /\ Cardinality(EntriesFor(r, u)) <= 1
    /\ (\A t \in 1..Len(txs) : gh[t].applied <= 1 /\ gh[t].credited <= 1)
         => \A i \in EntriesFor(r, u) :
              users[r].referrals[i].commissionEarned = CreditedUpTo(u, Len(txs))

(***************************************************************************)
(* Notifications                                                           *)
(***************************************************************************)
\* the status a settlement handler leaves its transaction in
SettledAs(op) == IF op \in {"approveWithdraw", "approveDeposit"} THEN "approved" ELSE "rejected"

\* the audit entry a settlement handler writes
AuditOf(op) ==
  IF op = "approveWithdraw" THEN "approve-withdraw"
  ELSE IF op = "approveDeposit" THEN "approve-deposit"
  ELSE IF op = "rejectWithdraw" THEN "reject-withdraw"
  ELSE "reject-deposit"

\* C26: a step that attempts the notifications of a settlement finds the
\* transaction already saved as settled (and, for an approval, the balances
\* already written), changes no account and no transaction, leaves the audit
\* entry of the settlement in place, answers with success whether the
\* notifications were sent or failed, and ends the request: nothing is retried
\* and nothing is taken back.
C26_NotifyAfterCommit ==
  [][ resp'.mail # "none"
        => LET t == resp'.t
               op == resp'.op
           IN /\ op \in {"approveWithdraw", "approveDeposit", "rejectWithdraw", "rejectDeposit"}
              /\ txs[t].status = SettledAs(op)
              /\ op = "approveWithdraw" => gh[t].deducted >= 1 /\ audits[<<AuditOf(op), t>>] >= 1
              /\ op = "approveDeposit" => gh[t].applied >= 1 /\ audits[<<AuditOf(op), t>>] >= 1
              /\ users' = users
              /\ txs' = txs
              /\ audits'[<<AuditOf(op), t>>] >= 1
              /\ \A k \in DOMAIN audits : k # <<AuditOf(op), t>> => audits'[k] = audits[k]
              /\ resp'.code = "ok"
              /\ \A p \in Procs : pc[p] = resp'.from => pc'[p] \in {"idle", pc[p]} ]_vars

\* the notifications of an approved withdrawal failed, the deduction stayed and
\* the request was answered with success
C26_Witness ==
  /\ resp.mail = "failed"
  /\ resp.code = "ok"
  /\ resp.op = "approveWithdraw"
  /\ txs[resp.t].status = "approved"
  /\ gh[resp.t].deducted = 1
  /\ audits[<<"approve-withdraw", resp.t>>] = 1

(***************************************************************************)
(* Accrual                                                                 *)
(***************************************************************************)
\* the instant the accrual of a deposit ends: the earlier of its endDate and
\* of its start + 60 calendar days
AccrualEnd(dep) ==
  LET cap == AddDays(dep.startDate, CapDays)
  IN IF IsSome(dep.endDate) THEN Min(Val(dep.endDate), cap) ELSE cap

\* from one asOf to the next the profit of the deposit is not negative, does
\* not decrease, and stays as it is once the accrual has ended
AccrualGrows ==
  /\ fout'[1].profit >= 0
  /\ IsSome(fout) => fout'[1].profit >= fout[1].profit
  /\ (IsSome(fout) /\ now >= AccrualEnd(Val(fin).dep)) => fout'[1].profit = fout[1].profit

\* C27: for every deposit the accrued profit is at least 0 at every time, never
\* decreases as time passes and is constant from the accrual end on (the
\* earlier of the explicit end and start + 60 calendar days).
C27_AccrualMonotone == [][IsSome(fout') => AccrualGrows]_vars

\* the same for the deposits whose amount and rate are not negative
AccrualGrowsIfNotNegative ==
  [][(IsSome(fout') /\ Val(fin).amount >= 0 /\ Val(fin).rate >= 0) => AccrualGrows]_vars

\* every instant of [s, e) is on a Saturday or a Sunday
WeekendOnly(s, e) ==
  \/ e <= s
  \/ /\ GetDay(s) \in {0, 6}
     /\ e <= AddDays((s \div MinutesPerDay) * MinutesPerDay, IF GetDay(s) = 6 THEN 2 ELSE 1)

\* C28: while the accrual interval of a deposit, from its start to the earliest
\* of asOf, its endDate and start + 60 days, lies within one weekend, its profit
\* is 0 whatever its amount and rate; and moving asOf on across weekend time
\* only leaves the profit as it was.
C28_WeekendsEarnNothing ==
  [][ IsSome(fout')
        => LET dep == Val(fin).dep
           IN /\ WeekendOnly(dep.startDate, Min(now', AccrualEnd(dep))) => fout'[1].profit = 0
              /\ (IsSome(fout) /\ WeekendOnly(now, now')) => fout'[1].profit = fout[1].profit ]_vars

\* a deposit of 100 at 8 % a day approved on Saturday 10:00 has earned nothing
\* by Sunday 22:40
C28_Witness ==
  /\ IsSome(fout)
  /\ Val(fin).dep.startDate = 7800
  /\ Val(fin).dep.amount = 100000
  /\ Val(fin).dep.ratePercent = 8
  /\ now = 10000
  /\ GetDay(now) = 0
  /\ fout[1].profit = 0

(***************************************************************************)
(* Rates                                                                   *)
(***************************************************************************)
\* the tiers whose threshold an amount has reached
TiersUpTo(amount) == {i \in 1..Len(RateMapping) : RateMapping[i].amount <= amount}

\* the rate of the tier whose threshold is the amount, else of the highest tier
\* whose threshold the amount has reached, else of the lowest tier
TierRate(amount) ==
  IF \E i \in 1..Len(RateMapping) : RateMapping[i].amount = amount
  THEN RateMapping[CHOOSE i \in 1..Len(RateMapping) : RateMapping[i].amount = amount].rate
  ELSE IF TiersUpTo(amount) # {}
  THEN RateMapping[CHOOSE i \in TiersUpTo(amount) :
                     \A j \in TiersUpTo(amount) : RateMapping[j].amount <= RateMapping[i].amount].rate
  ELSE RateMapping[CHOOSE i \in 1..Len(RateMapping) :
                     \A j \in 1..Len(RateMapping) : RateMapping[i].amount <= RateMapping[j].amount].rate

\* C29: rateForAmount gives the rate of the tier whose threshold equals the
\* amount, otherwise of the highest tier whose threshold is at most the amount,
\* and the lowest tier's rate below the lowest threshold; a larger amount never
\* gets a smaller rate; 100 gets 6, 19 gets 5 and 10000 gets 8.
C29_RateByTier ==
  IsSome(fout)
    => /\ fout[1].lo = TierRate(Val(fin).lo)
       /\ fout[1].hi = TierRate(Val(fin).hi)
       /\ fout[1].lo <= fout[1].hi
       /\ Val(fin).lo = 100000 => fout[1].lo = 6
       /\ Val(fin).lo = 19000 => fout[1].lo = 5
       /\ Val(fin).hi = 10000000 => fout[1].hi = 8

\* 19.00 is below the lowest threshold and gets 5; 10000.00 is a threshold and gets 8
C29_Witness ==
  /\ IsSome(fout)
  /\ Val(fin).lo = 19000
  /\ Val(fin).hi = 10000000
  /\ fout[1].lo = 5
  /\ fout[1].hi = 8

(***************************************************************************)
(* The days of the plan                                                    *)
(***************************************************************************)
\* the deposit approveDeposit stores for the same request with other plan days
WithDays(days) ==
  AccrualDeposit(Val(fin).amount, Val(fin).rate, days, Val(fin).start, TRUE)

\* C30: the days of the plan are for display only: a deposit approved at the
\* same instant with the same amount and rate but other days has the same
\* accrued profit at every later time, is finalized as completed at the same
\* instant with the same endDate, and takes the same amount off the capital.
C30_DaysDisplayOnly ==
  (IsSome(fout) /\ IsSome(Val(fin).dep.endDate))
    => \A days \in AccrualDays :
         /\ fout[1].profit = profitForDeposit(WithDays(days), now)
         /\ Matured(Val(fin).dep, now) = Matured(WithDays(days), now)
         /\ FinalizeDeposit(Val(fin).dep, now).status = FinalizeDeposit(WithDays(days), now).status
         /\ Matured(Val(fin).dep, now)
              => /\ FinalizeDeposit(Val(fin).dep, now).endDate
                      = FinalizeDeposit(WithDays(days), now).endDate
                 /\ FinalizeDeposit(Val(fin).dep, now).amount
                      = FinalizeDeposit(WithDays(days), now).amount

\* the parts of it that do not involve the profit
SameFinalization ==
  (IsSome(fout) /\ IsSome(Val(fin).dep.endDate))
    => \A days \in AccrualDays :
         /\ Matured(Val(fin).dep, now) = Matured(WithDays(days), now)
         /\ FinalizeDeposit(Val(fin).dep, now).status = FinalizeDeposit(WithDays(days), now).status
         /\ Matured(Val(fin).dep, now)
              => /\ FinalizeDeposit(Val(fin).dep, now).endDate
                      = FinalizeDeposit(WithDays(days), now).endDate
                 /\ FinalizeDeposit(Val(fin).dep, now).amount
                      = FinalizeDeposit(WithDays(days), now).amount

(***************************************************************************)
(* Withdrawal requests                                                     *)
(***************************************************************************)
\* what createWithdrawRequest compares the amount with: the recomputed profit
\* plus the commission of the account it read
RequestAvailable(p) == loc[p].calc + Val(loc[p].user).referralEarnings

\* the steps of createWithdrawRequest: a request refused for its amount
\* (Refused(amount, available)) or its method details answers with a validation
\* error and creates nothing, and a transaction is created only as a pending
\* withdrawal of an amount that is not refused
RequestsChecked(Refused(_, _)) ==
  \A p \in Procs :
    /\ (pc[p] = "cw_save" /\ pc'[p] # "cw_save")
         => /\ (Refused(loc[p].amt, RequestAvailable(p)) \/ ~loc[p].method)
                 => (resp'.code = "validation" /\ pc'[p] = "idle")
            /\ txs' = txs
    /\ (pc[p] = "cw_tx" /\ pc'[p] # "cw_tx")
         => /\ txs' = Append(txs, txs'[Len(txs')])
            /\ txs'[Len(txs')].type = "withdraw"
            /\ txs'[Len(txs')].status = "pending"
            /\ txs'[Len(txs')].amount = loc[p].amt
            /\ ~Refused(loc[p].amt, RequestAvailable(p))
            /\ loc[p].method
    /\ (pc[p] \notin {"cw_save", "cw_tx"} /\ pc'[p] # pc[p]) => txs' = txs

AtMostMinimum(amount, available) == amount <= MinWithdraw \/ amount > available
BelowMinimum(amount, available) == amount < MinWithdraw \/ amount > available

\* C31 as stated: requests of at most the minimum of 2, of more than the profit
\* plus the commission, or without the method details are refused with a
\* validation error and create no transaction.
C31_AtMostMinimumRefused == [][RequestsChecked(AtMostMinimum)]_vars

\* C31: requests of less than the minimum of 2, of more than the profit plus
\* the commission, or without the method details are refused with a validation
\* error and create no transaction; a pending withdrawal is created only for an
\* amount of at least 2 within the available balance.
C31_BelowMinimumRefused == [][RequestsChecked(BelowMinimum)]_vars

\* a request of exactly 2.00 was accepted and stored as pending
C31_Witness ==
  /\ resp.op = "createWithdrawRequest"
  /\ resp.code = "ok"
  /\ Len(txs) = Len(SeedTxs) + 1
  /\ txs[Len(txs)].type = "withdraw"
  /\ txs[Len(txs)].status = "pending"
  /\ txs[Len(txs)].amount = MinWithdraw

(***************************************************************************)
(* Profit at maturity                                                      *)
(***************************************************************************)
\* C32: with no withdrawal in between, a step after which the account holds a
\* completed deposit does not lower the account's netProfit: the profit the
\* deposit earned up to its cap stays in what computeNetProfit returns.
C32_ProfitKeptAtMaturity ==
  [][ \A u \in Requesters :
        (\E i \in 1..Len(users'[u].deposits) : users'[u].deposits[i].status = "completed")
          => users'[u].netProfit >= users[u].netProfit ]_vars

(***************************************************************************)
(* Capital and deposits                                                    *)
(***************************************************************************)
\* the amounts of the active deposits of an account
ActiveAmounts(u) ==
  SumAmounts(users[u].deposits,
             {i \in 1..Len(users[u].deposits) : users[u].deposits[i].status = "active"})

\* C33: the capital of every account is the sum of the amounts of its active
\* deposits, in every state that approvals of deposits and overviews lead to.
C33_CapitalIsActiveDeposits ==
  \A u \in Users : users[u].capital = ActiveAmounts(u)

(***************************************************************************)
(* What an account earned and what it withdrew                             *)
(***************************************************************************)
RECURSIVE AccruedUpTo(_, _, _)
\* the profit of the first i deposits, active or completed, as of that instant
AccruedUpTo(deps, i, asOf) ==
  IF i = 0 THEN 0 ELSE AccruedUpTo(deps, i - 1, asOf) + profitForDeposit(deps[i], asOf)

RECURSIVE ApprovedWithdrawals(_, _)
\* the approved amounts of the approved withdrawals of u among the first i transactions
ApprovedWithdrawals(u, i) ==
  IF i = 0 THEN 0
  ELSE ApprovedWithdrawals(u, i - 1)
       + (IF txs[i].user = u /\ txs[i].type = "withdraw" /\ txs[i].status = "approved"
          THEN OrElse(txs[i].approvedAmount, txs[i].amount) ELSE 0)

\* C34: what the account has withdrawn plus what it may still withdraw
\* (netProfit + referralEarnings) is never more than the profit its deposits
\* have accrued plus the commission credited to it.
C34_NeverMoreThanEarned ==
  \A u \in Requesters :
    ApprovedWithdrawals(u, Len(txs)) + users[u].netProfit + users[u].referralEarnings
      <= AccruedUpTo(users[u].deposits, Len(users[u].deposits), now) + EarlierCommission

(***************************************************************************)
(* Approval and recomputation                                              *)
(***************************************************************************)
\* the withdrawal t of account u is approved by this step
ApprovesWithdrawal(t, u) ==
  /\ t \in 1..Len(txs)
  /\ txs[t].type = "withdraw"
  /\ txs[t].user = u
  /\ txs[t].status = "pending"
  /\ txs'[t].status = "approved"

\* computeNetProfit on the account and the transactions the step leaves,
\* at the same instant, returns the netProfit the step leaves
RecomputationAgrees(u) ==
  computeNetProfit(users'[u], u, now', txs') = users'[u].netProfit

\* C35: the netProfit an approval of a withdrawal leaves is the netProfit that
\* computeNetProfit returns at the same instant with nothing else changed.
C35_ApprovalAgreesWithRecomputation ==
  [][ \A u \in Requesters, t \in TxIds : ApprovesWithdrawal(t, u) => RecomputationAgrees(u) ]_vars

\* the same for the approvals that find the netProfit as computeNetProfit
\* returns it at that instant
AgreesWhenFresh ==
  [][ \A u \in Requesters, t \in TxIds :
        (ApprovesWithdrawal(t, u) /\ users[u].netProfit = computeNetProfit(users[u], u, now, txs))
          => RecomputationAgrees(u) ]_vars

(***************************************************************************)
(* Approved amounts of any sign                                            *)
(***************************************************************************)
\* C36: an approval of a withdrawal raises neither netProfit nor
\* referralEarnings, whatever the approved amount (zero and negative amounts
\* included), and lowers their total by exactly the approved amount.
C36_ApprovalNeverRaises ==
  [][ \A u \in Requesters, t \in TxIds :
        ApprovesWithdrawal(t, u)
          => /\ users'[u].netProfit <= users[u].netProfit
             /\ users'[u].referralEarnings <= users[u].referralEarnings
             /\ (users[u].netProfit + users[u].referralEarnings)
                  - (users'[u].netProfit + users'[u].referralEarnings)
                = Val(txs'[t].approvedAmount) ]_vars

\* the same for the approved amounts that are not negative
NeverRaisesIfNotNegative ==
  [][ \A u \in Requesters, t \in TxIds :
        (ApprovesWithdrawal(t, u) /\ Val(txs'[t].approvedAmount) >= 0)
          => /\ users'[u].netProfit <= users[u].netProfit
             /\ users'[u].referralEarnings <= users[u].referralEarnings
             /\ (users[u].netProfit + users[u].referralEarnings)
                  - (users'[u].netProfit + users'[u].referralEarnings)
                = Val(txs'[t].approvedAmount) ]_vars

Withdrawable(us, u) == us[u].netProfit + us[u].referralEarnings

RECURSIVE ApprovedIn(_, _, _)
\* the approved amounts of the approved withdrawals of u among the first i of the transactions
ApprovedIn(store, u, i) ==
  IF i = 0 THEN 0
  ELSE ApprovedIn(store, u, i - 1)
       + (IF store[i].user = u /\ store[i].type = "withdraw" /\ store[i].status = "approved"
          THEN OrElse(store[i].approvedAmount, store[i].amount) ELSE 0)

\* C38: with two approvals of two pending withdrawals of one account running
\* concurrently no deduction is lost: in every step netProfit + referralEarnings
\* goes down by exactly the amounts approved in that step and never below zero,
\* and a call fails validation only when its amount exceeds what the account
\* then has, leaving its transaction pending.
C38_NoDeductionLost ==
  [][ \A u \in Requesters :
        /\ Withdrawable(users, u) - Withdrawable(users', u)
             = ApprovedIn(txs', u, Len(txs')) - ApprovedIn(txs, u, Len(txs))
        /\ Withdrawable(users', u) >= 0
        /\ (resp'.code = "validation" /\ resp'.op = "approveWithdraw" /\ txs[resp'.t].user = u)
             => /\ OrElse(resp'.arg, txs[resp'.t].amount) > Withdrawable(users, u)
                /\ txs'[resp'.t].status = "pending"
                /\ users' = users ]_vars

\* the approval of the request of 3.00 started when 6.00 were available, met
\* the committed approval of the request of 5.00, ran again and failed
\* validation against the 1.00 left
C38_Witness ==
  /\ resp.op = "approveWithdraw"
  /\ resp.code = "validation"
  /\ resp.from = "aw_retry"
  /\ resp.t = 5
  /\ txs[3].status = "approved"
  /\ txs[5].status = "pending"
  /\ users["u1"].netProfit = 1000
  /\ users["u1"].referralEarnings = 0

(***************************************************************************)
(* The referral listing                                                    *)
(***************************************************************************)
\* C39: the totalReferralEarnings that getReferrals returns for a referrer is
\* the sum of commissionEarned over the referrer's entries, with one row for
\* each referred account, whatever the referred accounts' own
\* referralEarnings are.
C39_ListingIsCommissionEarned ==
  [][ (resp'.op = "getReferrals" /\ resp'.code = "ok")
        => LET r == fout'[1].referrer
               snapshot == users[r].referrals
               referred == {snapshot[i].user : i \in 1..Len(snapshot)}
           IN /\ DOMAIN fout'[1].rows = referred
              /\ fout'[1].totalReferralEarnings
                   = SumRows([k \in referred |-> SnapshotCommission(snapshot, Len(snapshot), k)],
                             referred) ]_vars

\* the same when no referred account holds commission of its own
ListingWithoutOwnCommission ==
  [][ (resp'.op = "getReferrals" /\ resp'.code = "ok"
         /\ \A i \in 1..Len(users[fout'[1].referrer].referrals) :
              users[users[fout'[1].referrer].referrals[i].user].referralEarnings = 0)
        => LET r == fout'[1].referrer
               snapshot == users[r].referrals
               referred == {snapshot[i].user : i \in 1..Len(snapshot)}
           IN /\ DOMAIN fout'[1].rows = referred
              /\ fout'[1].totalReferralEarnings
                   = SumRows([k \in referred |-> SnapshotCommission(snapshot, Len(snapshot), k)],
                             referred) ]_vars

=============================================================================
